---- MODULE Spec2Model ----
(***************************************************************************)
(* The remediation scripts of the repository as one state machine.  Every  *)
(* run executes one script from its first statement to its exit; the host  *)
(* environment (installed packages, files) is the state it mutates, and    *)
(* the outcomes of pip, of imports and of file writes are the inputs.      *)
(***************************************************************************)
EXTENDS Integers, Sequences, FiniteSets, TLC

VARIABLES
    script,      \* the script this process runs
    host,        \* the interpreter and platform the script runs on
    pc,          \* position in the script
    i,           \* index of the running loop (1-based)
    loc,         \* the boolean local variables of main()
    pkgs,        \* the host environment: package -> installed build
    sysmodules,  \* sys.modules of this process: module -> build loaded
    files,       \* files on disk: name -> content
    trace,       \* what the process did, in order: pip commands, prints, writes
    exitcode     \* -1 while running, then the process exit code

vars == <<script, host, pc, i, loc, pkgs, sysmodules, files, trace, exitcode>>

(***************************************************************************)
(* The environment                                                         *)
(***************************************************************************)

\* Packages whose installed state the scripts probe or change.
Packages == {"torch", "xformers", "numpy", "blendmodes", "gradio",
             "pytorch_lightning", "flash-attn", "triton", "requests",
             "scipy", "scikit-image", "opencv-python", "pillow", "torchvision",
             "packaging", "setuptools", "wheel", "pip", "importlib-metadata",
             "typing-extensions", "certifi", "charset-normalizer", "idna",
             "urllib3", "six", "python-dateutil", "pytz", "zipp",
             "open-clip-torch", "clip-by-openai", "transformers", "tokenizers",
             "sentencepiece"}

\* Builds a package can be installed as.  "broken" is installed but raises a
\* non-ImportError (OSError on a DLL load) when imported.
TorchBuilds == {"cuda", "cpu", "broken"}
XformersBuilds == {"ok", "nomea", "broken"}
PlainBuilds == {"ok", "broken"}
GradioBuilds == {"v3", "v4", "broken"}

\* subprocess.run(..., check=True): exit 0, CalledProcessError, or the call
\* itself raising (OSError for a missing executable, UnicodeDecodeError).
PipOutcomes == {"ok", "fail", "raise"}

\* Events of the trace.
Pr(s) == [k |-> "print", a |-> s]
Pip(s) == [k |-> "pip", a |-> s]
Wr(f) == [k |-> "write", a |-> f]
Traceback == [k |-> "print", a |-> "Traceback"]

\* What a pip command that ended with exit code 0 did to the environment:
\* package p is now installed as build b ("absent" after an uninstall).
Did(p, b) == [k |-> "effect", a |-> p, b |-> b]

\* The events of one `pip install` of p and of one `pip uninstall` of p.
InstallEv(cmd, p, o, b) == <<Pip(cmd)>> \o (IF o = "ok" THEN <<Did(p, b)>> ELSE <<>>)
UninstallEv(cmd, pk, p, u) ==
    <<Pip(cmd)>> \o (IF u = "ok" /\ pk[p] # "absent" THEN <<Did(p, "absent")>> ELSE <<>>)

\* The package state after `pip install p` ended with outcome o; b is the
\* build the command put on disk when it succeeded.  The scripts never put
\* back what was there before.
Installed(pk, p, o, b) ==
    IF o = "ok" THEN [pk EXCEPT ![p] = b] ELSE pk

\* subprocess.run(..., check=False) of a pip uninstall: the package is
\* removed, or pip could not remove it and the exit code is ignored.
UninstallOutcomes == {"ok", "fail"}

\* The package state after `pip uninstall P -y`; the packages in F could not
\* be removed (check=False: the exit code is ignored).
Uninstalled(pk, P, F) ==
    [p \in DOMAIN pk |-> IF p \in P \ F THEN "absent" ELSE pk[p]]

\* `import m`: the cached module if m was imported before in this process,
\* else ModuleNotFoundError, the package's own load error, or a fresh load.
ImportRes(sm, pk, m) ==
    IF sm[m] # "none" THEN "ok"
    ELSE CASE pk[m] = "absent" -> "ImportError"
           [] pk[m] = "broken" -> "OSError"
           [] OTHER -> "ok"

Loaded(sm, pk, m) ==
    IF sm[m] = "none" /\ pk[m] \notin {"absent", "broken"}
    THEN [sm EXCEPT ![m] = pk[m]]
    ELSE sm

\* torch.cuda.is_available() of the torch module this process holds.
cuda_is_available(sm) == sm["torch"] = "cuda"

\* The result of a function call: the environment it leaves, the events it
\* emitted and what it returned ("True", "False", or "raise" when an
\* exception left the function).
Result(pk, sm, ev, ret) == [pkgs |-> pk, sysmodules |-> sm, ev |-> ev, ret |-> ret]

LocalNames == {"success", "pytorch_exists", "gpu_working", "xformers_installed",
               "pytorch_available", "cuda_works", "gpu_config_created",
               "vae_configured", "version_is_none", "packaging_works",
               "torch_ok", "pipeline_ok", "processing_patched", "images_patched"}
NoLocals == [n \in LocalNames |-> FALSE]

Scripts == {"fix_pytorch_installation", "fix_pytorch_python313",
            "install_xformers_python313", "fix_pytorch_cuda",
            "setup_gpu_acceleration", "fix_grey_images",
            "fix_pytorch_lightning_imports", "fix_gradio_compatibility",
            "fix_package_conflicts", "fix_triton_conflict",
            "fix_final_gpu_issues", "fix_blendmodes_final",
            "install_core_deps", "quick_package_fix", "fix_image_generation"}

FileNames == {"pytorch_recovery.bat", "webui_env.bat", "webui_env.sh",
              "webui_fallback.bat", "webui_gpu.bat", "webui_gpu_fast.bat",
              "webui_gpu_balanced.bat", "webui_gpu_lowvram.bat",
              "ui-config.json", "models",
              "models/VAE/vae-ft-mse-840000-ema-pruned.safetensors",
              "webui_vae_fixed.bat", "modules/sd_models.py",
              "modules/sd_models.py.pl_backup", "modules/gradio_extensons.py",
              "modules/gradio_extensons.py.gradio_backup",
              "webui_gpu_optimized.bat", "webui_triton_fix.bat",
              "webui_gpu_rtx3080_final.bat", "test_gpu_performance.py",
              "test_pattern.png", "test_reverse.png", "modules/processing.py",
              "modules/processing.py.image_gen_backup",
              "modules/processing.py.blendmodes_backup", "modules/images.py",
              "modules/images.py.cpu_fix_backup", "cpu_optimization.bat",
              "webui_compatible.bat",
              "repositories/generative-models/sgm/modules/encoders/modules.py",
              "repositories/generative-models/sgm/modules/encoders/modules.py.backup",
              "modules/launch_utils.py", "modules/launch_utils.py.backup",
              "modules/launch_utils.py.no_compile_backup",
              "modules/api/models.py", "modules/api/models.py.pydantic_backup"}

(***************************************************************************)
(* fix_pytorch_installation.py                                             *)
(***************************************************************************)

\* The verification shared by the strategies: import torch, then
\* torch.cuda.is_available().  Only ImportError is caught.
fpi_test_installation(pk, sm, ev, n) ==
    LET r == ImportRes(sm, pk, "torch")
        sm2 == Loaded(sm, pk, "torch")
    IN CASE r = "ImportError" ->
              Result(pk, sm, ev \o <<Pr("Strategy " \o n \o " failed: PyTorch import failed")>>, "False")
         [] r = "OSError" -> Result(pk, sm, ev, "raise")
         [] OTHER ->
              Result(pk, sm2, ev, IF cuda_is_available(sm2) THEN "True" ELSE "False")

install_pytorch_strategy_1(pk, sm) ==
    { LET cmd == <<Pip("install torch torchvision torchaudio --index-url cu118")>>
          pk2 == Installed(pk, "torch", o, b)
      IN CASE o = "fail" -> Result(pk2, sm, cmd \o <<Pr("Strategy 1 failed")>>, "False")
           [] o = "raise" -> Result(pk2, sm, cmd, "raise")
           [] OTHER -> fpi_test_installation(pk2, sm, cmd, "1")
      : o \in PipOutcomes, b \in TorchBuilds }

install_pytorch_strategy_2(pk, sm) ==
    { LET cmd1 == <<Pip("install torch torchvision torchaudio")>>
          cmd2 == <<Pip("install torch torchvision torchaudio --upgrade --index-url cu118")>>
          pk1 == Installed(pk, "torch", o1, "cpu")
          pk2 == Installed(pk1, "torch", o2, b)
      IN CASE o1 = "fail" -> Result(pk1, sm, cmd1 \o <<Pr("Strategy 2 failed")>>, "False")
           [] o1 = "raise" -> Result(pk1, sm, cmd1, "raise")
           [] o2 = "fail" -> Result(pk2, sm, cmd1 \o cmd2 \o <<Pr("Strategy 2 failed")>>, "False")
           [] o2 = "raise" -> Result(pk2, sm, cmd1 \o cmd2, "raise")
           [] OTHER -> fpi_test_installation(pk2, sm, cmd1 \o cmd2, "2")
      : o1 \in PipOutcomes, o2 \in PipOutcomes, b \in TorchBuilds }

install_pytorch_strategy_3(pk, sm) ==
    { LET cmd == <<Pip("install --pre torch torchvision torchaudio --index-url nightly/cu121")>>
          pk2 == Installed(pk, "torch", o, b)
      IN CASE o = "fail" -> Result(pk2, sm, cmd \o <<Pr("Strategy 3 failed")>>, "False")
           [] o = "raise" -> Result(pk2, sm, cmd, "raise")
           [] OTHER -> fpi_test_installation(pk2, sm, cmd, "3")
      : o \in PipOutcomes, b \in TorchBuilds }

\* Defined in the script but never put in main's strategies list.
install_pytorch_strategy_4(pk, sm) ==
    { Result(pk, sm, <<Pr("Skipping automatic implementation")>>, "False") }

\* main's list of (strategy_name, strategy_func).
fpi_strategies ==
    << "CUDA 11.8 (Recommended for Python 3.13)",
       "CPU first, then CUDA upgrade",
       "Nightly build with latest CUDA" >>

fpi_strategy_func(n, pk, sm) ==
    CASE n = 1 -> install_pytorch_strategy_1(pk, sm)
      [] n = 2 -> install_pytorch_strategy_2(pk, sm)
      [] OTHER -> install_pytorch_strategy_3(pk, sm)

\* The strategies the script defines for the concern.
fpi_defined_strategies ==
    { "install_pytorch_strategy_1", "install_pytorch_strategy_2",
      "install_pytorch_strategy_3", "install_pytorch_strategy_4" }

Exit(code) == pc' = "exit" /\ exitcode' = code

\* A loop that forgets its `break`.
fpi_after_strategy_nobreak(ret, k) ==
    IF k = Len(fpi_strategies) THEN "after_strategies" ELSE "strategies"

\* main's for loop, lines 316-323: `break` on the first strategy that
\* returns True, else on to the next one until the list ends.
fpi_after_strategy(ret, k) ==
    IF ret = "True" \/ k = Len(fpi_strategies) THEN "after_strategies" ELSE "strategies"

\* An exception nobody catches: the traceback is printed and Python exits 1.
Crash(ev) ==
    /\ trace' = trace \o ev \o <<Traceback>>
    /\ Exit(1)

fpi_check_environment ==
    /\ script = "fix_pytorch_installation" /\ pc = "start"
    /\ LET r == ImportRes(sysmodules, pkgs, "torch") IN
       CASE r = "ImportError" ->
              /\ trace' = trace \o <<Pr("PyTorch not installed")>>
              /\ pc' = "clean_pytorch_remnants"
              /\ UNCHANGED <<sysmodules, loc, exitcode>>
         [] r = "OSError" ->
              /\ Crash(<<>>)
              /\ UNCHANGED <<sysmodules, loc>>
         [] OTHER ->
              /\ sysmodules' = Loaded(sysmodules, pkgs, "torch")
              /\ loc' = [loc EXCEPT !["pytorch_exists"] = TRUE]
              /\ trace' = trace \o <<Pr("PyTorch already installed")>>
              /\ pc' = "cuda_check"
              /\ UNCHANGED exitcode
    /\ UNCHANGED <<script, host, i, pkgs, files>>

fpi_cuda_check ==
    /\ script = "fix_pytorch_installation" /\ pc = "cuda_check"
    /\ IF cuda_is_available(sysmodules)
       THEN /\ trace' = trace \o <<Pr("PyTorch with CUDA already working!")>>
            /\ Exit(0)
       ELSE /\ trace' = trace \o <<Pr("PyTorch installed but CUDA not available")>>
            /\ pc' = "clean_pytorch_remnants"
            /\ UNCHANGED exitcode
    /\ UNCHANGED <<script, host, i, loc, pkgs, sysmodules, files>>

clean_pytorch_remnants ==
    /\ script = "fix_pytorch_installation" /\ pc = "clean_pytorch_remnants"
    /\ \E F \in SUBSET {"torch", "xformers"} :
          pkgs' = Uninstalled(pkgs, {"torch", "xformers"}, F)
    /\ trace' = trace \o <<Pip("uninstall torch -y"), Pip("uninstall torchvision -y"),
                           Pip("uninstall torchaudio -y"), Pip("uninstall torchtext -y"),
                           Pip("uninstall xformers -y"), Pr("Cleanup completed")>>
    /\ pc' = "strategies" /\ i' = 1
    /\ UNCHANGED <<script, host, loc, sysmodules, files, exitcode>>

fpi_try_strategy ==
    /\ script = "fix_pytorch_installation" /\ pc = "strategies"
    /\ \E r \in fpi_strategy_func(i, pkgs, sysmodules) :
          /\ pkgs' = r.pkgs
          /\ sysmodules' = r.sysmodules
          /\ CASE r.ret = "True" ->
                    /\ trace' = trace \o <<Pr("Trying: " \o fpi_strategies[i])>> \o r.ev
                                      \o <<Pr("Success with: " \o fpi_strategies[i])>>
                    /\ loc' = [loc EXCEPT !["success"] = TRUE]
                    /\ pc' = fpi_after_strategy(r.ret, i)
                    /\ UNCHANGED <<i, exitcode>>
               [] r.ret = "False" ->
                    /\ trace' = trace \o <<Pr("Trying: " \o fpi_strategies[i])>> \o r.ev
                                      \o <<Pr("Failed: " \o fpi_strategies[i])>>
                    /\ i' = i + 1
                    /\ pc' = fpi_after_strategy(r.ret, i)
                    /\ UNCHANGED <<loc, exitcode>>
               [] OTHER ->
                    /\ Crash(<<Pr("Trying: " \o fpi_strategies[i])>> \o r.ev)
                    /\ UNCHANGED <<i, loc>>
    /\ UNCHANGED <<script, host, files>>

\* test_gpu_functionality(): every exception is caught.
test_gpu_functionality ==
    /\ script = "fix_pytorch_installation" /\ pc = "after_strategies"
    /\ loc["success"]
    /\ \E ops_ok \in BOOLEAN :
          LET r == ImportRes(sysmodules, pkgs, "torch")
              sm2 == Loaded(sysmodules, pkgs, "torch")
              working == r = "ok" /\ cuda_is_available(sm2) /\ ops_ok
          IN /\ sysmodules' = sm2
             /\ loc' = [loc EXCEPT !["gpu_working"] = working]
             /\ trace' = trace \o <<Pr(IF working THEN "Basic GPU operations working"
                                                  ELSE "GPU test failed")>>
             /\ pc' = IF working THEN "install_xformers" ELSE "summary"
    /\ UNCHANGED <<script, host, i, pkgs, files, exitcode>>

\* install_xformers_after_pytorch(): CalledProcessError and ImportError are
\* caught, nothing else.
install_xformers_after_pytorch(pk, sm) ==
    { LET cmd == <<Pip("install xformers")>>
          pk2 == Installed(pk, "xformers", o, b)
          r == ImportRes(sm, pk2, "xformers")
      IN CASE ~cuda_is_available(sm) ->
                Result(pk, sm, <<Pr("CUDA not available, skipping xFormers")>>, "False")
           [] o = "fail" -> Result(pk2, sm, cmd \o <<Pr("xFormers installation failed")>>, "False")
           [] o = "raise" -> Result(pk2, sm, cmd, "raise")
           [] r = "ImportError" -> Result(pk2, sm, cmd \o <<Pr("xFormers import failed")>>, "False")
           [] r = "OSError" -> Result(pk2, sm, cmd, "raise")
           [] OTHER -> Result(pk2, Loaded(sm, pk2, "xformers"),
                              cmd \o <<Pr("xFormers installed")>>, "True")
      : o \in PipOutcomes, b \in XformersBuilds }

fpi_install_xformers ==
    /\ script = "fix_pytorch_installation" /\ pc = "install_xformers"
    /\ \E r \in install_xformers_after_pytorch(pkgs, sysmodules) :
          /\ pkgs' = r.pkgs
          /\ sysmodules' = r.sysmodules
          /\ IF r.ret = "raise"
             THEN /\ Crash(r.ev)
                  /\ UNCHANGED loc
             ELSE /\ trace' = trace \o r.ev
                  /\ loc' = [loc EXCEPT !["xformers_installed"] = (r.ret = "True")]
                  /\ pc' = "summary"
                  /\ UNCHANGED exitcode
    /\ UNCHANGED <<script, host, i, files>>

\* main, lines 333-354: the summary of the run.
fpi_summary ==
    /\ script = "fix_pytorch_installation"
    /\ \/ pc = "summary"
       \/ pc = "after_strategies" /\ ~loc["success"]
    /\ trace' = trace \o
         (IF loc["success"]
          THEN <<Pr("PYTORCH RECOVERY SUMMARY"),
                 Pr(IF loc["gpu_working"]
                    THEN "PyTorch with CUDA successfully installed!"
                    ELSE "PyTorch installed but GPU acceleration not working")>>
          ELSE <<Pr("All PyTorch installation strategies failed")>>)
    /\ pc' = "create_recovery_script"
    /\ UNCHANGED <<script, host, i, loc, pkgs, sysmodules, files, exitcode>>

\* create_recovery_script(), then main's last two prints.
create_recovery_script ==
    /\ script = "fix_pytorch_installation" /\ pc = "create_recovery_script"
    /\ \E w \in {"ok", "fail"} :
          IF w = "ok"
          THEN /\ files' = [files EXCEPT !["pytorch_recovery.bat"] = "recovery_script"]
               /\ trace' = trace \o <<Wr("pytorch_recovery.bat"), Pr("Created pytorch_recovery.bat"),
                                      Pr("Recovery script created: pytorch_recovery.bat")>>
          ELSE /\ files' = files
               /\ trace' = trace \o <<Pr("Failed to create recovery script"),
                                      Pr("Recovery script created: pytorch_recovery.bat")>>
    /\ Exit(0)
    /\ UNCHANGED <<script, host, i, loc, pkgs, sysmodules>>

(***************************************************************************)
(* fix_pytorch_python313.py                                                *)
(***************************************************************************)

\* verify_cuda_installation(): <<result, sys.modules after>>; every
\* exception is caught.
verify_cuda_installation(pk, sm) ==
    LET sm2 == Loaded(sm, pk, "torch")
    IN <<ImportRes(sm, pk, "torch") = "ok" /\ cuda_is_available(sm2), sm2>>

\* solution_1's list of CUDA versions, in order of preference.
cuda_versions == <<"cu121", "cu118", "cu124">>

\* solution_1_install_compatible_pytorch() from its k-th CUDA version on.
RECURSIVE solution_1_from(_, _, _, _)
solution_1_from(k, pk, sm, ev) ==
    IF k > Len(cuda_versions)
    THEN { Result(pk, sm, ev \o <<Pr("All CUDA installations failed")>>, "False") }
    ELSE UNION {
           LET cmd == <<Pr("Trying CUDA version: " \o cuda_versions[k]),
                        Pip("install --force-reinstall torch " \o cuda_versions[k])>>
               pk2 == Installed(pk, "torch", o, b)
               v == verify_cuda_installation(pk2, sm)
           IN CASE o = "raise" -> { Result(pk2, sm, ev \o cmd, "raise") }
                [] o = "fail" ->
                     solution_1_from(k + 1, pk2, sm,
                         ev \o cmd \o <<Pr("installation failed " \o cuda_versions[k])>>)
                [] v[1] ->
                     { Result(pk2, v[2],
                         ev \o cmd \o <<Pr("CUDA verification successful! " \o cuda_versions[k])>>,
                         "True") }
                [] OTHER ->
                     solution_1_from(k + 1, pk2, v[2],
                         ev \o cmd \o <<Pr("CUDA not detected, trying next version...")>>)
           : o \in PipOutcomes, b \in TorchBuilds }

solution_1_install_compatible_pytorch(pk, sm) == solution_1_from(1, pk, sm, <<>>)

\* solution_2_use_nightly_build(): success is pip's exit code.
solution_2_use_nightly_build(pk, sm) ==
    { LET cmd == <<Pip("install --pre torch torchvision torchaudio nightly/cu121")>>
          pk2 == Installed(pk, "torch", o, b)
      IN CASE o = "raise" -> Result(pk2, sm, cmd, "raise")
           [] o = "fail" -> Result(pk2, sm, cmd \o <<Pr("PyTorch nightly installation failed")>>, "False")
           [] OTHER -> Result(pk2, sm, cmd \o <<Pr("PyTorch nightly installation successful!")>>, "True")
      : o \in PipOutcomes, b \in TorchBuilds }

\* solution_3_cpu_only()
solution_3_cpu_only(pk, sm) ==
    { LET cmd == <<Pip("install torch torchvision torchaudio cpu")>>
          pk2 == Installed(pk, "torch", o, b)
      IN CASE o = "raise" -> Result(pk2, sm, cmd, "raise")
           [] o = "fail" -> Result(pk2, sm, cmd \o <<Pr("CPU-only PyTorch installation failed")>>, "False")
           [] OTHER -> Result(pk2, sm, cmd \o <<Pr("CPU-only PyTorch installation successful!")>>, "True")
      : o \in PipOutcomes, b \in {"cpu", "broken"} }

\* main's solutions, in the order main tries them.
fp313_solutions ==
    << "Solution 1: Compatible PyTorch version",
       "Solution 2: PyTorch nightly build",
       "Solution 3: CPU-only PyTorch" >>

fp313_solution_func(n, pk, sm) ==
    CASE n = 1 -> solution_1_install_compatible_pytorch(pk, sm)
      [] n = 2 -> solution_2_use_nightly_build(pk, sm)
      [] OTHER -> solution_3_cpu_only(pk, sm)

\* check_python_version(), check_pytorch_availability() and main's branch
\* on the Python version.
check_pytorch_availability ==
    /\ script = "fix_pytorch_python313" /\ pc = "start"
    /\ LET r == ImportRes(sysmodules, pkgs, "torch") IN
       IF r = "OSError"
       THEN /\ Crash(<<>>)
            /\ UNCHANGED <<sysmodules, loc, i>>
       ELSE /\ sysmodules' = Loaded(sysmodules, pkgs, "torch")
            /\ loc' = [loc EXCEPT !["pytorch_available"] = (r = "ok")]
            /\ trace' = trace \o <<Pr(IF r = "ok" THEN "PyTorch is already installed"
                                                 ELSE "PyTorch is not installed")>>
            /\ i' = 1
            /\ pc' = IF host.py313 THEN "solutions"
                     ELSE IF r = "ok" THEN "create_environment_override"
                     ELSE "standard_pytorch"
            /\ UNCHANGED exitcode
    /\ UNCHANGED <<script, host, pkgs, files>>

\* main, lines 223-227: an older Python without PyTorch gets solution 1,
\* whose result is not looked at.
fp313_standard_pytorch ==
    /\ script = "fix_pytorch_python313" /\ pc = "standard_pytorch"
    /\ \E r \in solution_1_install_compatible_pytorch(pkgs, sysmodules) :
          /\ pkgs' = r.pkgs
          /\ sysmodules' = r.sysmodules
          /\ IF r.ret = "raise"
             THEN Crash(<<Pr("Installing standard PyTorch...")>> \o r.ev)
             ELSE /\ trace' = trace \o <<Pr("Installing standard PyTorch...")>> \o r.ev
                  /\ pc' = "create_environment_override"
                  /\ UNCHANGED exitcode
    /\ UNCHANGED <<script, host, i, loc, files>>

\* main, lines 231-250: `if not success: success = solution_n()`, three
\* times, then the verdict.
fp313_try_solution ==
    /\ script = "fix_pytorch_python313" /\ pc = "solutions"
    /\ \E r \in fp313_solution_func(i, pkgs, sysmodules) :
          LET ev == <<Pr("Trying " \o fp313_solutions[i])>> \o r.ev
              last == i = Len(fp313_solutions)
          IN /\ pkgs' = r.pkgs
             /\ sysmodules' = r.sysmodules
             /\ CASE r.ret = "True" ->
                       /\ trace' = trace \o ev \o <<Pr("PyTorch installation completed!")>>
                       /\ loc' = [loc EXCEPT !["success"] = TRUE]
                       /\ pc' = "create_environment_override"
                       /\ UNCHANGED <<i, exitcode>>
                  [] r.ret = "False" ->
                       /\ trace' = trace \o ev \o
                            (IF last THEN <<Pr("All PyTorch installation attempts failed")>>
                             ELSE <<>>)
                       /\ i' = i + 1
                       /\ pc' = IF last THEN "create_environment_override" ELSE "solutions"
                       /\ UNCHANGED <<loc, exitcode>>
                  [] OTHER ->
                       /\ Crash(ev)
                       /\ UNCHANGED <<i, loc>>
    /\ UNCHANGED <<script, host, files>>

\* create_environment_override(): open() and write() are not guarded.
create_environment_override ==
    /\ script = "fix_pytorch_python313" /\ pc = "create_environment_override"
    /\ LET name == IF host.windows THEN "webui_env.bat" ELSE "webui_env.sh" IN
       \E w \in {"ok", "fail"} :
          IF w = "ok"
          THEN /\ files' = [files EXCEPT ![name] = "fix_pytorch_python313"]
               /\ trace' = trace \o <<Wr(name), Pr("Created " \o name \o " with environment overrides")>>
               /\ pc' = "test_pytorch_installation"
               /\ UNCHANGED exitcode
          ELSE /\ files' = files
               /\ Crash(<<>>)
    /\ UNCHANGED <<script, host, i, loc, pkgs, sysmodules>>

\* test_pytorch_installation() (every exception is caught), then main's
\* closing summary.
test_pytorch_installation ==
    /\ script = "fix_pytorch_python313" /\ pc = "test_pytorch_installation"
    /\ LET r == ImportRes(sysmodules, pkgs, "torch") IN
       /\ sysmodules' = Loaded(sysmodules, pkgs, "torch")
       /\ trace' = trace \o <<Pr(IF r = "ok" THEN "PyTorch version" ELSE "PyTorch test failed"),
                              Pr("Fix completed! Next steps:")>>
    /\ Exit(0)
    /\ UNCHANGED <<script, host, i, loc, pkgs, files>>

(***************************************************************************)
(* install_xformers_python313.py                                           *)
(***************************************************************************)

\* `from xformers.ops import memory_efficient_attention` once `import
\* xformers` has succeeded: the outcomes it can have.  A package cached in
\* sys.modules whose ops submodule failed to import is looked up again on
\* disk, where a later install may have replaced it.
memory_efficient_attention(sm, pk) ==
    CASE sm["xformers"] = "ok" -> {TRUE}
      [] sm["xformers"] = "nomea" /\ pk["xformers"] = "ok" -> {TRUE, FALSE}
      [] OTHER -> {FALSE}

\* The pip arguments of the five strategies, in the order of the list.
ixf_strategies ==
    << "xformers", "xformers --pre", "xformers==0.0.23",
       "xformers --no-binary xformers",
       "git+https://github.com/facebookresearch/xformers.git" >>

\* One iteration of install_xformers_strategies(): "True" returns from the
\* function, "False" is `continue`.  Every exception is caught.  The
\* uninstall removes xformers when it is there and does nothing otherwise.
install_xformers_strategy(k, pk, sm) ==
    UNION {
      LET head == <<Pr("--- Strategy: " \o ixf_strategies[k])>>
                  \o UninstallEv("uninstall xformers -y", pk, "xformers", u)
          cmd == head \o InstallEv("install " \o ixf_strategies[k], "xformers", o, b)
          pk1 == Uninstalled(pk, {"xformers"}, IF u = "ok" THEN {} ELSE {"xformers"})
          pk2 == Installed(pk1, "xformers", o, b)
          r == ImportRes(sm, pk2, "xformers")
          sm2 == Loaded(sm, pk2, "xformers")
      IN CASE o = "raise" -> { Result(pk2, sm, cmd \o <<Pr("Unexpected error")>>, "False") }
           [] o = "fail" -> { Result(pk2, sm, cmd \o <<Pr("Installation failed")>>, "False") }
           [] r = "ImportError" -> { Result(pk2, sm, cmd \o <<Pr("Import failed")>>, "False") }
           [] r = "OSError" -> { Result(pk2, sm, cmd \o <<Pr("Unexpected error")>>, "False") }
           [] OTHER ->
                { IF mea
                  THEN Result(pk2, sm2, cmd \o <<Pr("Memory efficient attention available")>>, "True")
                  ELSE Result(pk2, sm2, cmd \o <<Pr("Import failed")>>, "False")
                  : mea \in memory_efficient_attention(sm2, pk2) }
      : u \in {"ok"}, o \in PipOutcomes, b \in XformersBuilds }

\* What main() leaves to the __main__ block: a return, or an exception the
\* block's `except Exception` prints.
ixf_return == pc' = "input" /\ UNCHANGED exitcode

\* check_python_version() (always True) and check_pytorch(): ImportError is
\* caught, anything else reaches the __main__ block.
check_pytorch ==
    /\ script = "install_xformers_python313" /\ pc = "start"
    /\ LET r == ImportRes(sysmodules, pkgs, "torch")
           sm2 == Loaded(sysmodules, pkgs, "torch")
       IN /\ sysmodules' = sm2
          /\ CASE r = "OSError" ->
                    /\ trace' = trace \o <<Pr("Unexpected error")>>
                    /\ ixf_return
               [] r = "ok" /\ cuda_is_available(sm2) ->
                    /\ trace' = trace \o <<Pr("GPU detected")>>
                    /\ pc' = "check_existing_xformers"
                    /\ UNCHANGED exitcode
               [] OTHER ->
                    /\ trace' = trace \o <<Pr("PyTorch/CUDA check failed")>>
                    /\ ixf_return
    /\ UNCHANGED <<script, host, i, loc, pkgs, files>>

\* A main that installs whatever the probe found.
ixf_step_3_always_install(working) == "install_xformers_strategies"

\* main, lines 257-260: `if check_existing_xformers(): return True`.
ixf_step_3(working) == IF working THEN "input" ELSE "install_xformers_strategies"

\* check_existing_xformers() and main's step 3.
check_existing_xformers ==
    /\ script = "install_xformers_python313" /\ pc = "check_existing_xformers"
    /\ LET r == ImportRes(sysmodules, pkgs, "xformers")
           sm2 == Loaded(sysmodules, pkgs, "xformers")
       IN /\ sysmodules' = sm2
          /\ \E mea \in memory_efficient_attention(sm2, pkgs) :
               CASE r = "OSError" ->
                      /\ trace' = trace \o <<Pr("Unexpected error")>>
                      /\ ixf_return
                      /\ UNCHANGED i
                 [] OTHER ->
                      /\ trace' = trace \o
                           (IF r = "ok" /\ mea
                            THEN <<Pr("Memory efficient attention available"),
                                   Pr("xFormers already working - no action needed")>>
                            ELSE <<Pr(IF r = "ok"
                              THEN "xFormers installed but memory efficient attention not available"
                              ELSE "xFormers not installed")>>)
                      /\ pc' = ixf_step_3(r = "ok" /\ mea)
                      /\ i' = 1
                      /\ UNCHANGED exitcode
    /\ UNCHANGED <<script, host, loc, pkgs, files>>

\* install_xformers_strategies(), lines 95-134: no branch restores what the
\* uninstall and the install of a failed strategy changed.
ixf_kept(before, r) == r.pkgs

\* install_xformers_strategies(), one strategy per step, and main's step 4.
install_xformers_strategies ==
    /\ script = "install_xformers_python313" /\ pc = "install_xformers_strategies"
    /\ \E r \in install_xformers_strategy(i, pkgs, sysmodules) :
          LET last == i = Len(ixf_strategies) IN
          /\ pkgs' = ixf_kept(pkgs, r)
          /\ sysmodules' = r.sysmodules
          /\ IF r.ret = "True"
             THEN /\ trace' = trace \o r.ev \o <<Pr("xFormers installation successful!")>>
                  /\ ixf_return
                  /\ UNCHANGED i
             ELSE /\ trace' = trace \o r.ev \o
                       (IF last THEN <<Pr("All xFormers installation strategies failed")>>
                        ELSE <<>>)
                  /\ i' = IF last THEN 1 ELSE i + 1
                  /\ pc' = IF last THEN "install_alternative_optimizations"
                           ELSE "install_xformers_strategies"
                  /\ UNCHANGED exitcode
    /\ UNCHANGED <<script, host, loc, files>>

\* The packages install_alternative_optimizations() tries.
alternatives == <<"flash-attn", "triton">>

\* install_alternative_optimizations(), one package per step; only
\* CalledProcessError is caught.
install_alternative_optimizations ==
    /\ script = "install_xformers_python313" /\ pc = "install_alternative_optimizations"
    /\ \E o \in PipOutcomes :
          LET last == i = Len(alternatives)
              cmd == InstallEv("install " \o alternatives[i], alternatives[i], o, "ok")
          IN /\ pkgs' = Installed(pkgs, alternatives[i], o, "ok")
             /\ IF o = "raise"
                THEN /\ trace' = trace \o cmd \o <<Pr("Unexpected error")>>
                     /\ ixf_return
                     /\ UNCHANGED i
                ELSE /\ trace' = trace \o cmd \o
                          <<Pr(alternatives[i] \o
                               (IF o = "ok" THEN " installed successfully"
                                ELSE " installation failed"))>>
                     /\ i' = i + 1
                     /\ pc' = IF last THEN "create_fallback_launcher"
                              ELSE "install_alternative_optimizations"
                     /\ UNCHANGED exitcode
    /\ UNCHANGED <<script, host, loc, sysmodules, files>>

\* create_fallback_launcher() (guarded), test_webui_compatibility() and the
\* summary main prints.
create_fallback_launcher ==
    /\ script = "install_xformers_python313" /\ pc = "create_fallback_launcher"
    /\ \E w \in {"ok", "fail"} :
          IF w = "ok"
          THEN /\ files' = [files EXCEPT !["webui_fallback.bat"] = "fallback_script"]
               /\ trace' = trace \o <<Wr("webui_fallback.bat"), Pr("Created webui_fallback.bat"),
                                      Pr("INSTALLATION SUMMARY")>>
          ELSE /\ files' = files
               /\ trace' = trace \o <<Pr("Failed to create fallback launcher"),
                                      Pr("INSTALLATION SUMMARY")>>
    /\ ixf_return
    /\ UNCHANGED <<script, host, i, loc, pkgs, sysmodules>>

\* The __main__ block's input("Press Enter to exit..."): EOFError on a
\* closed stdin is outside the try.
ixf_input ==
    /\ script = "install_xformers_python313" /\ pc = "input"
    /\ \E stdin \in {"line", "eof"} :
          IF stdin = "line"
          THEN /\ trace' = trace \o <<Pr("Press Enter to exit...")>>
               /\ Exit(0)
          ELSE Crash(<<Pr("Press Enter to exit...")>>)
    /\ UNCHANGED <<script, host, i, loc, pkgs, sysmodules, files>>

(***************************************************************************)
(* fix_pytorch_cuda.py                                                     *)
(***************************************************************************)

\* `del sys.modules['torch']` then `import torch`: torch is loaded again
\* from what is on disk.
Reloaded(sm, pk) == Loaded([sm EXCEPT !["torch"] = "none"], pk, "torch")

\* check_current_pytorch() and main's first return.
check_current_pytorch ==
    /\ script = "fix_pytorch_cuda" /\ pc = "start"
    /\ LET r == ImportRes(sysmodules, pkgs, "torch") IN
       CASE r = "OSError" ->
              /\ Crash(<<>>)
              /\ UNCHANGED sysmodules
         [] r = "ImportError" ->
              /\ trace' = trace \o <<Pr("PyTorch not found. Please run the main fix script first.")>>
              /\ Exit(0)
              /\ UNCHANGED sysmodules
         [] OTHER ->
              /\ sysmodules' = Loaded(sysmodules, pkgs, "torch")
              /\ trace' = trace \o <<Pr("Current PyTorch version")>>
              /\ pc' = "cuda_check"
              /\ UNCHANGED exitcode
    /\ UNCHANGED <<script, host, i, loc, pkgs, files>>

\* main, lines 194-202: the fix is needed unless CUDA is available.
fpc_fix_needed(sm) == ~cuda_is_available(sm)

\* main, lines 194-204: with CUDA working, test_installation() and return.
fpc_cuda_check ==
    /\ script = "fix_pytorch_cuda" /\ pc = "cuda_check"
    /\ IF fpc_fix_needed(sysmodules)
       THEN /\ trace' = trace \o <<Pr("CUDA not available. Starting fix process...")>>
            /\ pc' = "uninstall_current_pytorch"
            /\ UNCHANGED <<sysmodules, exitcode>>
       ELSE /\ sysmodules' = Reloaded(sysmodules, pkgs)
            /\ trace' = trace \o <<Pr("CUDA is already working! No fix needed."),
                                   Pr("Testing Final Installation")>>
            /\ Exit(0)
    /\ UNCHANGED <<script, host, i, loc, pkgs, files>>

\* uninstall_current_pytorch(): torch, torchvision, torchaudio, each with
\* check=True and CalledProcessError caught.
uninstall_current_pytorch ==
    /\ script = "fix_pytorch_cuda" /\ pc = "uninstall_current_pytorch"
    /\ \E u \in UninstallOutcomes :
          /\ pkgs' = Uninstalled(pkgs, {"torch"}, IF u = "ok" THEN {} ELSE {"torch"})
          /\ trace' = trace \o
               <<Pip("uninstall torch -y"),
                 Pr(IF u = "ok" THEN "torch uninstalled"
                    ELSE "torch not found or already uninstalled"),
                 Pip("uninstall torchvision -y"), Pip("uninstall torchaudio -y")>>
    /\ pc' = "install_cuda_pytorch" /\ i' = 1
    /\ UNCHANGED <<script, host, loc, sysmodules, files, exitcode>>

\* install_cuda_pytorch()'s list of CUDA configurations.
cuda_configs == <<"cu121", "cu118", "cu124">>

\* verify_cuda(): <<result, sys.modules after>>; torch is reloaded and every
\* exception is caught.
verify_cuda(pk, sm, ops_ok) ==
    LET sm2 == Reloaded(sm, pk)
    IN <<sm2["torch"] = "cuda" /\ ops_ok, sm2>>

\* One iteration of install_cuda_pytorch(): only CalledProcessError is caught.
install_cuda_pytorch_config(k, pk, sm) ==
    { LET cmd == <<Pr("Trying " \o cuda_configs[k]),
                   Pip("install torch==2.6.0 --force-reinstall " \o cuda_configs[k])>>
          pk2 == Installed(pk, "torch", o, b)
          v == verify_cuda(pk2, sm, ops_ok)
      IN CASE o = "raise" -> Result(pk2, sm, cmd, "raise")
           [] o = "fail" ->
                Result(pk2, sm, cmd \o <<Pr("Installation failed with " \o cuda_configs[k])>>, "False")
           [] v[1] ->
                Result(pk2, v[2],
                       cmd \o <<Pr("CUDA verification successful with " \o cuda_configs[k])>>, "True")
           [] OTHER ->
                Result(pk2, v[2],
                       cmd \o <<Pr("CUDA not working with " \o cuda_configs[k])>>, "False")
      : o \in PipOutcomes, b \in TorchBuilds, ops_ok \in BOOLEAN }

\* install_cuda_pytorch(), one configuration per step, and main's verdict.
install_cuda_pytorch ==
    /\ script = "fix_pytorch_cuda" /\ pc = "install_cuda_pytorch"
    /\ \E r \in install_cuda_pytorch_config(i, pkgs, sysmodules) :
          LET last == i = Len(cuda_configs) IN
          /\ pkgs' = r.pkgs
          /\ sysmodules' = r.sysmodules
          /\ CASE r.ret = "raise" ->
                    /\ Crash(r.ev)
                    /\ UNCHANGED <<i, loc>>
               [] r.ret = "True" ->
                    /\ trace' = trace \o r.ev \o <<Pr("CUDA PyTorch installation completed!")>>
                    /\ loc' = [loc EXCEPT !["success"] = TRUE]
                    /\ pc' = "test_installation"
                    /\ UNCHANGED <<i, exitcode>>
               [] OTHER ->
                    /\ trace' = trace \o r.ev \o
                         (IF last THEN <<Pr("CUDA installation failed"), Pr("Next steps:")>>
                          ELSE <<>>)
                    /\ i' = i + 1
                    /\ IF last THEN Exit(0)
                       ELSE pc' = "install_cuda_pytorch" /\ UNCHANGED exitcode
                    /\ UNCHANGED loc
    /\ UNCHANGED <<script, host, files>>

\* fix_pytorch_cuda.update_webui_config(), lines 168-172.
fpc_webui_content ==
    "@echo off\n"
    \o "set TORCH_COMMAND=pip install torch==2.6.0 torchvision==0.21.0 --extra-index-url https://download.pytorch.org/whl/cu121\n"
    \o "set COMMANDLINE_ARGS=--skip-python-version-check\n"
    \o "call webui.bat %*\n"

\* After a success: test_installation(), update_webui_config() (guarded)
\* and main's closing lines.
update_webui_config ==
    /\ script = "fix_pytorch_cuda" /\ pc = "test_installation"
    /\ sysmodules' = Reloaded(sysmodules, pkgs)
    /\ \E w \in {"ok", "fail"}, ops_ok \in BOOLEAN :
          LET tested == <<Pr(IF sysmodules'["torch"] = "cuda" /\ ops_ok
                             THEN "Success! PyTorch with CUDA is now working!"
                             ELSE "Installation completed but CUDA test failed")>>
          IN IF w = "ok"
             THEN /\ files' = [files EXCEPT !["webui_env.bat"] = fpc_webui_content]
                  /\ trace' = trace \o tested \o
                       <<Wr("webui_env.bat"), Pr("Updated webui_env.bat with CUDA configuration"),
                         Pr("Next steps:")>>
             ELSE /\ files' = files
                  /\ trace' = trace \o tested \o
                       <<Pr("Could not update webui_env.bat"), Pr("Next steps:")>>
    /\ Exit(0)
    /\ UNCHANGED <<script, host, i, loc, pkgs>>

(***************************************************************************)
(* setup_gpu_acceleration.py                                               *)
(***************************************************************************)

\* check_cuda_compatibility(): <<result, line printed>>.  ImportError and
\* every exception of the tensor test are caught.
check_cuda_compatibility(sm, pk, ops_ok) ==
    CASE ImportRes(sm, pk, "torch") # "ok" -> <<FALSE, "PyTorch not available">>
      [] ~cuda_is_available(Loaded(sm, pk, "torch")) ->
           <<FALSE, "CUDA not available in current PyTorch installation">>
      [] ops_ok -> <<TRUE, "CUDA operations working correctly">>
      [] OTHER -> <<FALSE, "CUDA operation test failed">>

\* detect_system_specs() and the first check_cuda_compatibility().
detect_system_specs ==
    /\ script = "setup_gpu_acceleration" /\ pc = "start"
    /\ \E ops_ok \in BOOLEAN :
          LET r == ImportRes(sysmodules, pkgs, "torch")
              c == check_cuda_compatibility(sysmodules, pkgs, ops_ok)
          IN IF r = "OSError"
             THEN /\ Crash(<<>>)
                  /\ UNCHANGED <<sysmodules, loc>>
             ELSE /\ sysmodules' = Loaded(sysmodules, pkgs, "torch")
                  /\ loc' = [loc EXCEPT !["cuda_works"] = c[1]]
                  /\ trace' = trace \o <<Pr(IF r = "ok" THEN "PyTorch detected"
                                                       ELSE "PyTorch not found"), Pr(c[2])>>
                  /\ pc' = "install_gpu_pytorch"
                  /\ UNCHANGED exitcode
    /\ UNCHANGED <<script, host, i, pkgs, files>>

\* main, line 333: `if not cuda_works:`.
sga_install_needed(cuda_works) == ~cuda_works

\* main, lines 333-337: install_gpu_pytorch() when CUDA does not work, then
\* check_cuda_compatibility() again.  `pip` is run by name: only
\* CalledProcessError is caught.
install_gpu_pytorch ==
    /\ script = "setup_gpu_acceleration" /\ pc = "install_gpu_pytorch"
    /\ IF ~sga_install_needed(loc["cuda_works"])
       THEN /\ pc' = "create_gpu_webui_config"
            /\ UNCHANGED <<pkgs, sysmodules, loc, trace, exitcode>>
       ELSE \E o \in PipOutcomes, b \in TorchBuilds, nvcc \in {"cu121", "cu118"},
               ops_ok \in BOOLEAN :
               LET cmd == <<Pr("Installing GPU-enabled PyTorch..."),
                            Pip("install torch torchvision torchaudio --index-url " \o nvcc)>>
                   pk2 == Installed(pkgs, "torch", o, b)
                   c == check_cuda_compatibility(sysmodules, pk2, ops_ok)
               IN /\ pkgs' = pk2
                  /\ CASE o = "raise" ->
                            /\ Crash(cmd)
                            /\ UNCHANGED <<sysmodules, loc>>
                       [] o = "fail" ->
                            /\ trace' = trace \o cmd \o <<Pr("PyTorch installation failed")>>
                            /\ pc' = "create_gpu_webui_config"
                            /\ UNCHANGED <<sysmodules, loc, exitcode>>
                       [] ImportRes(sysmodules, pk2, "torch") = "OSError" ->
                            /\ Crash(cmd \o <<Pr("GPU-enabled PyTorch installed successfully")>>)
                            /\ UNCHANGED <<sysmodules, loc>>
                       [] OTHER ->
                            /\ sysmodules' = Loaded(sysmodules, pk2, "torch")
                            /\ loc' = [loc EXCEPT !["cuda_works"] = c[1]]
                            /\ trace' = trace \o cmd \o
                                 <<Pr("GPU-enabled PyTorch installed successfully"), Pr(c[2])>>
                            /\ pc' = "create_gpu_webui_config"
                            /\ UNCHANGED exitcode
    /\ UNCHANGED <<script, host, i, files>>

\* The files create_performance_configs() writes.
performance_configs ==
    {"webui_gpu_fast.bat", "webui_gpu_balanced.bat", "webui_gpu_lowvram.bat"}

\* create_gpu_webui_config() and create_performance_configs() (each write
\* guarded), test_gpu_performance() and the summary.
create_gpu_webui_config ==
    /\ script = "setup_gpu_acceleration" /\ pc = "create_gpu_webui_config"
    /\ \E W \in SUBSET ({"webui_gpu.bat"} \cup performance_configs) :
          /\ files' = [f \in FileNames |-> IF f \in W THEN "setup_gpu_acceleration"
                                           ELSE files[f]]
          /\ loc' = [loc EXCEPT !["gpu_config_created"] = ("webui_gpu.bat" \in W)]
          /\ trace' = trace
               \o (IF "webui_gpu.bat" \in W THEN <<Wr("webui_gpu.bat")>> ELSE <<>>)
               \o (IF "webui_gpu_fast.bat" \in W THEN <<Wr("webui_gpu_fast.bat")>> ELSE <<>>)
               \o (IF "webui_gpu_balanced.bat" \in W THEN <<Wr("webui_gpu_balanced.bat")>> ELSE <<>>)
               \o (IF "webui_gpu_lowvram.bat" \in W THEN <<Wr("webui_gpu_lowvram.bat")>> ELSE <<>>)
               \o <<Pr("GPU ACCELERATION SETUP SUMMARY"),
                    Pr(IF loc["cuda_works"] /\ "webui_gpu.bat" \in W
                       THEN "GPU acceleration setup completed successfully!"
                       ELSE "GPU acceleration setup incomplete")>>
    /\ Exit(0)
    /\ UNCHANGED <<script, host, i, pkgs, sysmodules>>

(***************************************************************************)
(* fix_grey_images.py                                                      *)
(***************************************************************************)

vae_filename == "models/VAE/vae-ft-mse-840000-ema-pruned.safetensors"

\* Path(vae_path).name: the name main hands to configure_vae_in_ui_config().
vae_name == "vae-ft-mse-840000-ema-pruned.safetensors"

\* The two keys the script reads and sets, and one more key of the file.
SettingKeys ==
    <<"txt2img/Preferred VAE/value", "img2img/Preferred VAE/value",
      "txt2img/Sampling steps/value">>

\* Python values a settings dictionary holds.
PyNone == [t |-> "NoneType"]
PyStr(s) == [t |-> "str", s |-> s]
PyBool(b) == [t |-> "bool", b |-> b]
PyInt(n) == [t |-> "int", n |-> n]

SettingValues ==
    {PyStr("None"), PyStr(vae_name), PyStr("20"), PyNone, PyBool(TRUE), PyInt(20)}

\* The literals of a JSON text and how each is spelled.
JsonLiterals ==
    { [json |-> "null"], [json |-> "true"], [json |-> "false"],
      [json |-> "number", digits |-> "20"] }
    \cup { [json |-> "string", chars |-> c] : c \in {"None", vae_name, "20"} }

JsonText(l) ==
    CASE l.json = "string" -> "\"" \o l.chars \o "\""
      [] l.json = "number" -> l.digits
      [] OTHER -> l.json

\* A json.dump that writes str(value) for every value.
ToJson_str(v) ==
    [json |-> "string",
     chars |-> CASE v.t = "str" -> v.s
                 [] v.t = "NoneType" -> "None"
                 [] v.t = "bool" -> IF v.b THEN "True" ELSE "False"
                 [] OTHER -> ToString(v.n)]

\* json.dump's encoding of a Python value (the json module's default
\* encoder): str -> string, None -> null, bool -> true/false, int -> number.
ToJson(v) ==
    CASE v.t = "str" -> [json |-> "string", chars |-> v.s]
      [] v.t = "NoneType" -> [json |-> "null"]
      [] v.t = "bool" -> [json |-> IF v.b THEN "true" ELSE "false"]
      [] OTHER -> [json |-> "number", digits |-> ToString(v.n)]

\* json.load's decoding of a JSON literal (the json module's default
\* decoder).
FromJson(l) ==
    CASE l.json = "string" -> PyStr(l.chars)
      [] l.json = "null" -> PyNone
      [] l.json = "true" -> PyBool(TRUE)
      [] l.json = "false" -> PyBool(FALSE)
      [] OTHER -> PyInt(CHOOSE n \in 0..99 : ToString(n) = l.digits)

\* The text of a JSON object: its members in the order of SettingKeys.
RECURSIVE JsonMembers(_, _, _)
JsonMembers(j, k, sep) ==
    IF k > Len(SettingKeys) THEN ""
    ELSE IF SettingKeys[k] \in DOMAIN j
         THEN sep \o "\"" \o SettingKeys[k] \o "\": " \o JsonText(j[SettingKeys[k]])
              \o JsonMembers(j, k + 1, ", ")
         ELSE JsonMembers(j, k + 1, sep)

JsonObjectText(j) == "{" \o JsonMembers(j, 1, "") \o "}"

JsonObjects ==
    UNION { [K -> JsonLiterals] : K \in SUBSET { SettingKeys[k] : k \in 1..Len(SettingKeys) } }

\* json.dump(ui_config, f, indent=4), line 139: the text written for the
\* dictionary d.
json_dump(d) == JsonObjectText([k \in DOMAIN d |-> ToJson(d[k])])

\* json.load(f), lines 35 and 130: the dictionaries the text parses to; none
\* when the text is not JSON (the call raises).
json_load(text) ==
    { [k \in DOMAIN j |-> FromJson(j[k])] : j \in { o \in JsonObjects : JsonObjectText(o) = text } }

\* ui_config.get(key, "None"), lines 37-38.
dict_get(d, key, default) == IF key \in DOMAIN d THEN d[key] ELSE default

\* check_current_vae_config()'s reading of ui-config.json, lines 32-38: the
\* values of the two Preferred VAE keys, or why there are none.
preferred_vae(text) ==
    CASE text = "absent" -> [read |-> "not found"]
      [] json_load(text) = {} -> [read |-> "error"]
      [] OTHER -> LET d == CHOOSE x \in json_load(text) : TRUE
                  IN [read |-> "ok",
                      txt2img_vae |-> dict_get(d, SettingKeys[1], PyStr("None")),
                      img2img_vae |-> dict_get(d, SettingKeys[2], PyStr("None"))]

\* check_current_vae_config(), lines 40-48: a VAE counts as configured
\* unless both values read are the string "None".
vae_configured(c) ==
    c.read = "ok" /\ ~(c.txt2img_vae = PyStr("None") /\ c.img2img_vae = PyStr("None"))

\* A dictionary that starts empty whatever the file held.
vae_settings_fresh(text, name) ==
    [k \in {SettingKeys[1], SettingKeys[2]} |-> PyStr(name)]

\* The dictionary configure_vae_in_ui_config() holds when it calls
\* json.dump, lines 128-137: what the file held (nothing when there is no
\* file) with both Preferred VAE keys set to the name.
vae_settings(text, name) ==
    LET d == IF text = "absent" THEN <<>> ELSE CHOOSE x \in json_load(text) : TRUE
    IN [k \in DOMAIN d \cup {SettingKeys[1], SettingKeys[2]} |->
          IF k \in {SettingKeys[1], SettingKeys[2]} THEN PyStr(name) ELSE d[k]]

\* Module imports, check_current_vae_config() and check_available_vaes().
\* ui-config.json is "absent" or holds its text; a text that is not JSON
\* makes the read raise, which is caught.
check_current_vae_config ==
    /\ script = "fix_grey_images" /\ pc = "start"
    /\ IF ImportRes(sysmodules, pkgs, "requests") # "ok"
       THEN /\ Crash(<<>>)
            /\ UNCHANGED <<sysmodules, loc>>
       ELSE /\ sysmodules' = Loaded(sysmodules, pkgs, "requests")
            /\ loc' = [loc EXCEPT !["vae_configured"] =
                           vae_configured(preferred_vae(files["ui-config.json"]))]
            /\ trace' = trace \o
                 <<Pr(LET c == preferred_vae(files["ui-config.json"]) IN
                      CASE c.read = "not found" -> "ui-config.json not found"
                        [] c.read = "error" -> "Error reading ui-config.json"
                        [] ~vae_configured(c) -> "No VAE configured"
                        [] OTHER -> "VAE is configured"),
                   Pr(IF files[vae_filename] = "absent" THEN "No VAE files found in models/VAE/"
                      ELSE "Found VAE files")>>
            /\ pc' = IF files[vae_filename] = "absent" THEN "download_recommended_vae"
                     ELSE "configure_vae_in_ui_config"
            /\ UNCHANGED exitcode
    /\ UNCHANGED <<script, host, i, pkgs, files>>

\* download_recommended_vae() and main's return when it gives None.  The
\* mkdir of models/VAE has no parents=True and stands outside the try; a
\* download that breaks after open() leaves the part that was written.
download_recommended_vae ==
    /\ script = "fix_grey_images" /\ pc = "download_recommended_vae"
    /\ IF files["models"] = "absent"
       THEN /\ Crash(<<Pr("No VAE files found. Downloading recommended VAE...")>>)
            /\ UNCHANGED files
       ELSE \E d \in {"ok", "fail", "partial"} :
               /\ files' = [files EXCEPT ![vae_filename] =
                              CASE d = "ok" -> "complete"
                                [] d = "partial" -> "partial"
                                [] OTHER -> "absent"]
               /\ IF d = "ok"
                  THEN /\ trace' = trace \o
                            <<Pr("No VAE files found. Downloading recommended VAE..."),
                              Wr(vae_filename), Pr("Downloaded VAE")>>
                       /\ pc' = "configure_vae_in_ui_config"
                       /\ UNCHANGED exitcode
                  ELSE /\ trace' = trace \o
                            <<Pr("No VAE files found. Downloading recommended VAE..."),
                              Pr("Failed to download VAE"),
                              Pr("Failed to download VAE. Please download manually.")>>
                       /\ Exit(0)
    /\ UNCHANGED <<script, host, i, loc, pkgs, sysmodules>>

\* main, lines 235-237, and configure_vae_in_ui_config(): every exception is
\* caught and the result is not looked at.
configure_vae_in_ui_config ==
    /\ script = "fix_grey_images" /\ pc = "configure_vae_in_ui_config"
    /\ IF loc["vae_configured"]
       THEN UNCHANGED <<files, trace>>
       ELSE \E w \in {"ok", "fail"} :
               IF preferred_vae(files["ui-config.json"]).read # "error" /\ w = "ok"
               THEN /\ files' = [files EXCEPT !["ui-config.json"] =
                                    json_dump(vae_settings(@, vae_name))]
                    /\ trace' = trace \o <<Wr("ui-config.json"),
                                           Pr("Configured VAE in ui-config.json")>>
               ELSE /\ files' = files
                    /\ trace' = trace \o <<Pr("Failed to configure VAE")>>
    /\ pc' = "create_vae_fix_launch_script"
    /\ UNCHANGED <<script, host, i, loc, pkgs, sysmodules, exitcode>>

\* create_vae_fix_launch_script() (guarded), test_vae_configuration()
\* (guarded) and the summary.
create_vae_fix_launch_script ==
    /\ script = "fix_grey_images" /\ pc = "create_vae_fix_launch_script"
    /\ \E w \in {"ok", "fail"} :
          IF w = "ok"
          THEN /\ files' = [files EXCEPT !["webui_vae_fixed.bat"] = "fix_grey_images"]
               /\ trace' = trace \o
                    <<Wr("webui_vae_fixed.bat"), Pr("Created launch script: webui_vae_fixed.bat"),
                      Pr("GREY IMAGE FIX SUMMARY"), Pr("UI configuration updated")>>
          ELSE /\ files' = files
               /\ trace' = trace \o
                    <<Pr("Failed to create launch script"),
                      Pr("GREY IMAGE FIX SUMMARY"), Pr("UI configuration updated")>>
    /\ Exit(0)
    /\ UNCHANGED <<script, host, i, loc, pkgs, sysmodules>>

(***************************************************************************)
(* fix_pytorch_lightning_imports.py                                        *)
(***************************************************************************)

\* test_pytorch_lightning_version() at the start of main: only ImportError
\* is caught.
test_pytorch_lightning_version ==
    /\ script = "fix_pytorch_lightning_imports" /\ pc = "start"
    /\ LET r == ImportRes(sysmodules, pkgs, "pytorch_lightning") IN
       CASE r = "OSError" ->
              /\ Crash(<<>>)
              /\ UNCHANGED sysmodules
         [] r = "ImportError" ->
              /\ trace' = trace \o <<Pr("PyTorch Lightning not installed"),
                                     Pr("Installing PyTorch Lightning...")>>
              /\ pc' = "install_compatible_pytorch_lightning"
              /\ UNCHANGED <<sysmodules, exitcode>>
         [] OTHER ->
              /\ sysmodules' = Loaded(sysmodules, pkgs, "pytorch_lightning")
              /\ trace' = trace \o <<Pr("PyTorch Lightning version")>>
              /\ pc' = "find_pytorch_lightning_import_files"
              /\ UNCHANGED exitcode
    /\ UNCHANGED <<script, host, i, loc, pkgs, files>>

versions_to_try ==
    <<"pytorch_lightning>=2.0.0,<3.0.0", "pytorch_lightning==2.1.0",
      "pytorch_lightning==1.9.5">>

\* install_compatible_pytorch_lightning(), one version per step, and main's
\* return when none installs.  Caught: CalledProcessError around pip,
\* ImportError around the import.
install_compatible_pytorch_lightning ==
    /\ script = "fix_pytorch_lightning_imports"
    /\ pc = "install_compatible_pytorch_lightning"
    /\ \E o \in PipOutcomes, b \in PlainBuilds :
          LET cmd == <<Pr("Trying to install " \o versions_to_try[i]),
                       Pip("install " \o versions_to_try[i])>>
              pk2 == Installed(pkgs, "pytorch_lightning", o, b)
              last == i = Len(versions_to_try)
          IN /\ pkgs' = pk2
             /\ CASE o = "raise" \/ (o = "ok" /\ b = "broken") ->
                       /\ Crash(cmd)
                       /\ UNCHANGED <<i, sysmodules>>
                  [] o = "ok" ->
                       /\ sysmodules' = Loaded(sysmodules, pk2, "pytorch_lightning")
                       /\ trace' = trace \o cmd \o
                            <<Pr("Successfully installed " \o versions_to_try[i])>>
                       /\ pc' = "find_pytorch_lightning_import_files"
                       /\ UNCHANGED <<i, exitcode>>
                  [] OTHER ->
                       /\ trace' = trace \o cmd \o
                            <<Pr("Failed to install " \o versions_to_try[i])>> \o
                            (IF last THEN <<Pr("Could not install PyTorch Lightning")>> ELSE <<>>)
                       /\ i' = i + 1
                       /\ IF last THEN Exit(0)
                          ELSE pc' = "install_compatible_pytorch_lightning" /\ UNCHANGED exitcode
                       /\ UNCHANGED sysmodules
    /\ UNCHANGED <<script, host, loc, files>>

\* find_pytorch_lightning_import_files() and main's return when the list is
\* empty; a file is "clean", holds the old import ("pl_import") or holds
\* the patched import ("pl_patched", which still contains the search text).
find_pytorch_lightning_import_files ==
    /\ script = "fix_pytorch_lightning_imports"
    /\ pc = "find_pytorch_lightning_import_files"
    /\ IF files["modules/sd_models.py"] \in {"pl_import", "pl_patched"}
       THEN /\ trace' = trace \o <<Pr("Found problematic import in: modules/sd_models.py")>>
            /\ pc' = "patch_pytorch_lightning_imports"
            /\ UNCHANGED exitcode
       ELSE /\ trace' = trace \o <<Pr("No problematic PyTorch Lightning imports found")>>
            /\ Exit(0)
    /\ UNCHANGED <<script, host, i, loc, pkgs, sysmodules, files>>

\* The text of a file after the three replacements of
\* patch_pytorch_lightning_imports(): the replacement text contains the
\* text it replaces.
pl_patched_text(c) ==
    CASE c = "pl_import" -> "pl_patched"
      [] c = "pl_patched" -> "pl_patched_twice"
      [] OTHER -> c

\* main's patch loop, patch_pytorch_lightning_imports() (every exception
\* caught) and the summary.
patch_pytorch_lightning_imports ==
    /\ script = "fix_pytorch_lightning_imports"
    /\ pc = "patch_pytorch_lightning_imports"
    /\ \E w \in {"ok", "nobackup", "nowrite"} :
          LET f == "modules/sd_models.py"
              b == "modules/sd_models.py.pl_backup"
          IN CASE w = "ok" ->
                    /\ files' = [files EXCEPT ![b] = files[f], ![f] = pl_patched_text(files[f])]
                    /\ trace' = trace \o
                         <<Wr(b), Wr(f), Pr("Successfully patched modules/sd_models.py"),
                           Pr("PATCH SUMMARY"),
                           Pr("All PyTorch Lightning import issues fixed!")>>
               [] w = "nowrite" ->
                    /\ files' = [files EXCEPT ![b] = files[f]]
                    /\ trace' = trace \o
                         <<Wr(b), Pr("Error patching modules/sd_models.py"),
                           Pr("PATCH SUMMARY"), Pr("0/1 files patched successfully")>>
               [] OTHER ->
                    /\ files' = files
                    /\ trace' = trace \o
                         <<Pr("Error patching modules/sd_models.py"),
                           Pr("PATCH SUMMARY"), Pr("0/1 files patched successfully")>>
    /\ Exit(0)
    /\ UNCHANGED <<script, host, i, loc, pkgs, sysmodules>>

(***************************************************************************)
(* fix_gradio_compatibility.py                                             *)
(***************************************************************************)

\* check_gradio_version() at the start of main: only ImportError is caught
\* around the import.
check_gradio_version ==
    /\ script = "fix_gradio_compatibility" /\ pc = "start"
    /\ LET r == ImportRes(sysmodules, pkgs, "gradio")
           sm2 == Loaded(sysmodules, pkgs, "gradio")
       IN CASE r = "OSError" ->
                 /\ Crash(<<>>)
                 /\ UNCHANGED <<sysmodules, loc>>
            [] r = "ImportError" ->
                 /\ trace' = trace \o <<Pr("Gradio not installed"), Pr("Installing Gradio...")>>
                 /\ loc' = [loc EXCEPT !["version_is_none"] = TRUE]
                 /\ pc' = "install_compatible_gradio"
                 /\ UNCHANGED <<sysmodules, exitcode>>
            [] sm2["gradio"] = "v3" ->
                 /\ sysmodules' = sm2
                 /\ trace' = trace \o <<Pr("gr.components.IOComponent available (Gradio 3.x)")>>
                 /\ pc' = "patch_gradio_extensions"
                 /\ UNCHANGED <<loc, exitcode>>
            [] OTHER ->
                 /\ sysmodules' = sm2
                 /\ trace' = trace \o
                      <<Pr("gr.components.Component available (Gradio 4.x+)"),
                        Pr("Incompatible Gradio version detected, installing compatible version...")>>
                 /\ pc' = "install_compatible_gradio"
                 /\ UNCHANGED <<loc, exitcode>>
    /\ UNCHANGED <<script, host, i, pkgs, files>>

compatible_versions == <<"gradio>=3.40.0,<4.0.0", "gradio==3.50.2", "gradio==3.41.2">>

\* install_compatible_gradio(), one version per step, and what main does
\* with a False: return when Gradio was missing, go on when it was only
\* incompatible.  Caught: CalledProcessError, ImportError, AttributeError.
install_compatible_gradio ==
    /\ script = "fix_gradio_compatibility" /\ pc = "install_compatible_gradio"
    /\ \E o \in PipOutcomes, b \in GradioBuilds :
          LET cmd == <<Pr("Installing " \o compatible_versions[i]),
                       Pip("install " \o compatible_versions[i])>>
              pk2 == Installed(pkgs, "gradio", o, b)
              r == ImportRes(sysmodules, pk2, "gradio")
              sm2 == Loaded(sysmodules, pk2, "gradio")
              last == i = Len(compatible_versions)
          IN /\ pkgs' = pk2
             /\ CASE o = "raise" \/ (o = "ok" /\ r = "OSError") ->
                       /\ Crash(cmd)
                       /\ UNCHANGED <<i, sysmodules>>
                  [] o = "ok" /\ sm2["gradio"] = "v3" ->
                       /\ sysmodules' = sm2
                       /\ trace' = trace \o cmd \o
                            <<Pr(compatible_versions[i] \o " installed and working")>>
                       /\ pc' = "patch_gradio_extensions"
                       /\ UNCHANGED <<i, exitcode>>
                  [] OTHER ->
                       /\ sysmodules' = IF o = "ok" THEN sm2 ELSE sysmodules
                       /\ trace' = trace \o cmd \o
                            (IF o = "fail"
                             THEN <<Pr("Failed to install " \o compatible_versions[i])>>
                             ELSE <<>>) \o
                            (IF last THEN <<Pr("Could not install compatible Gradio")>> ELSE <<>>)
                       /\ i' = i + 1
                       /\ IF ~last
                          THEN pc' = "install_compatible_gradio" /\ UNCHANGED exitcode
                          ELSE IF loc["version_is_none"] THEN Exit(0)
                          ELSE pc' = "patch_gradio_extensions" /\ UNCHANGED exitcode
    /\ UNCHANGED <<script, host, loc, files>>

\* patch_gradio_extensions() (every exception caught), the two tests and
\* the summary.  The file is "absent", holds the IOComponent line
\* ("iocomponent"), holds the patch ("gradio_patched") or neither ("other").
patch_gradio_extensions ==
    /\ script = "fix_gradio_compatibility" /\ pc = "patch_gradio_extensions"
    /\ \E w \in {"ok", "nobackup", "nowrite"}, extensions_work \in BOOLEAN :
          LET f == "modules/gradio_extensons.py"
              b == "modules/gradio_extensons.py.gradio_backup"
              gradio_works == sysmodules["gradio"] \in {"v3", "v4"}
              summary == <<Pr("GRADIO COMPATIBILITY FIX SUMMARY"),
                           Pr(CASE gradio_works /\ extensions_work ->
                                     "Gradio compatibility issues resolved!"
                                [] gradio_works -> "Gradio is working!"
                                [] OTHER -> "Gradio compatibility issues remain")>>
          IN CASE files[f] = "absent" ->
                    /\ files' = files
                    /\ trace' = trace \o <<Pr("modules/gradio_extensons.py not found")>> \o summary
               [] files[f] = "gradio_patched" ->
                    /\ files' = files
                    /\ trace' = trace \o <<Pr("gradio_extensons.py already patched")>> \o summary
               [] files[f] = "other" ->
                    /\ files' = files
                    /\ trace' = trace \o <<Pr("gradio_extensons.py doesn't need patching")>> \o summary
               [] w = "ok" ->
                    /\ files' = [files EXCEPT ![b] = files[f], ![f] = "gradio_patched"]
                    /\ trace' = trace \o <<Wr(b), Wr(f), Pr("Patched modules/gradio_extensons.py")>>
                                      \o summary
               [] w = "nowrite" ->
                    /\ files' = [files EXCEPT ![b] = files[f]]
                    /\ trace' = trace \o <<Wr(b), Pr("Error patching modules/gradio_extensons.py")>>
                                      \o summary
               [] OTHER ->
                    /\ files' = files
                    /\ trace' = trace \o <<Pr("Error patching modules/gradio_extensons.py")>>
                                      \o summary
    /\ Exit(0)
    /\ UNCHANGED <<script, host, i, loc, pkgs, sysmodules>>

(***************************************************************************)
(* fix_package_conflicts.py                                                *)
(***************************************************************************)

\* fix_numpy_downgrade()'s lists.
packages_to_remove ==
    <<"numpy", "scipy", "scikit-image", "opencv-python", "pillow", "torchvision">>
essential_packages == <<"pillow", "opencv-python", "scipy", "scikit-image">>

\* The events of the six uninstalls (check=False), from package k on.
RECURSIVE RemoveEv(_, _)
RemoveEv(pk, k) ==
    IF k > Len(packages_to_remove) THEN <<>>
    ELSE UninstallEv("uninstall " \o packages_to_remove[k] \o " -y", pk,
                     packages_to_remove[k], "ok")
         \o RemoveEv(pk, k + 1)

\* fix_numpy_downgrade() up to the install of numpy==1.26.4, lines 20-50.
\* That install stands directly in the function's try: when it fails the
\* function returns False and nothing below it runs.
fix_numpy_downgrade ==
    /\ script = "fix_package_conflicts" /\ pc = "start"
    /\ sysmodules' = Loaded(sysmodules, pkgs, "numpy")
    /\ \E o \in PipOutcomes :
          LET pk1 == Uninstalled(pkgs, { packages_to_remove[k] : k \in 1..6 }, {})
              ev == <<Pr(IF ImportRes(sysmodules, pkgs, "numpy") = "ok"
                         THEN "Current NumPy" ELSE "NumPy not installed")>>
                    \o RemoveEv(pkgs, 1)
                    \o InstallEv("install numpy==1.26.4", "numpy", o, "1.26.4")
          IN /\ pkgs' = Installed(pk1, "numpy", o, "1.26.4")
             /\ CASE o = "raise" ->
                       /\ Crash(ev)
                       /\ UNCHANGED i
                  [] o = "fail" ->
                       /\ trace' = trace \o ev \o <<Pr("NumPy downgrade failed")>>
                       /\ pc' = "fix_blendmodes_installation"
                       /\ i' = 1
                       /\ UNCHANGED exitcode
                  [] OTHER ->
                       /\ trace' = trace \o ev \o <<Pr("Reinstalling dependent packages...")>>
                       /\ pc' = "essential_packages"
                       /\ i' = 1
                       /\ UNCHANGED exitcode
    /\ UNCHANGED <<script, host, loc, files>>

\* The loop over essential_packages, lines 53-66: each install has its own
\* try, which catches CalledProcessError.
fix_numpy_essential ==
    /\ script = "fix_package_conflicts" /\ pc = "essential_packages"
    /\ \E o \in PipOutcomes :
          LET p == essential_packages[i]
              ev == InstallEv("install " \o p, p, o, "ok")
          IN /\ pkgs' = Installed(pkgs, p, o, "ok")
             /\ IF o = "raise"
                THEN /\ Crash(ev)
                     /\ UNCHANGED i
                ELSE /\ trace' = trace \o ev \o
                          <<Pr(IF o = "ok" THEN p ELSE p \o " failed (non-critical)")>>
                     /\ i' = i + 1
                     /\ pc' = IF i = Len(essential_packages) THEN "reinstall_torchvision"
                              ELSE "essential_packages"
                     /\ UNCHANGED exitcode
    /\ UNCHANGED <<script, host, loc, sysmodules, files>>

\* The reinstall of torchvision and the closing `import numpy`, lines 68-89.
fix_numpy_torchvision ==
    /\ script = "fix_package_conflicts" /\ pc = "reinstall_torchvision"
    /\ \E o \in PipOutcomes :
          LET ev == <<Pr("Reinstalling torchvision...")>>
                    \o InstallEv("install torchvision --index-url cu118", "torchvision", o, "ok")
          IN /\ pkgs' = Installed(pkgs, "torchvision", o, "ok")
             /\ CASE o = "raise" ->
                       /\ Crash(ev)
                       /\ UNCHANGED <<i, sysmodules>>
                  [] o = "fail" ->
                       /\ trace' = trace \o ev \o <<Pr("NumPy downgrade failed")>>
                       /\ pc' = "fix_blendmodes_installation"
                       /\ i' = 1
                       /\ UNCHANGED <<sysmodules, exitcode>>
                  [] OTHER ->
                       /\ sysmodules' = Loaded(sysmodules, pkgs, "numpy")
                       /\ trace' = trace \o ev \o <<Pr("NumPy downgraded")>>
                       /\ pc' = "fix_blendmodes_installation"
                       /\ i' = 1
                       /\ UNCHANGED exitcode
    /\ UNCHANGED <<script, host, loc, files>>

\* fix_blendmodes_installation()'s strategies, in the order of the list.
blendmodes_strategies ==
    << [name |-> "Skip blendmodes entirely", cmd |-> "skip"],
       [name |-> "Install older blendmodes version", cmd |-> "blendmodes==2021"],
       [name |-> "Install latest compatible version", cmd |-> "blendmodes>=2020,<2025"],
       [name |-> "Install without dependencies", cmd |-> "blendmodes==2022 --no-deps"] >>

\* fix_blendmodes_installation(), one strategy per step: "skip" returns
\* True at once; the --no-deps strategy builds its command and never runs
\* it; CalledProcessError and the ImportError of the test are caught.
fix_blendmodes_installation ==
    /\ script = "fix_package_conflicts" /\ pc = "fix_blendmodes_installation"
    /\ LET st == blendmodes_strategies[i]
           last == i = Len(blendmodes_strategies)
           failed == IF last THEN <<Pr("All blendmodes installation strategies failed")>>
                     ELSE <<>>
       IN IF st.cmd = "skip"
          THEN /\ trace' = trace \o <<Pr("Trying: " \o st.name), Pr("Skipping blendmodes")>>
               /\ pc' = "fix_xformers_installation"
               /\ i' = 1
               /\ UNCHANGED <<pkgs, sysmodules, exitcode>>
          ELSE \E o \in (IF st.cmd = "blendmodes==2022 --no-deps" THEN {"notrun"}
                         ELSE PipOutcomes), b \in PlainBuilds :
                  LET ev == <<Pr("Trying: " \o st.name)>> \o
                            (IF o = "notrun" THEN <<>>
                             ELSE InstallEv("install " \o st.cmd, "blendmodes", o, b))
                      pk2 == Installed(pkgs, "blendmodes", o, b)
                      r == ImportRes(sysmodules, pk2, "blendmodes")
                  IN /\ pkgs' = pk2
                     /\ CASE o = "raise" \/ (o # "fail" /\ r = "OSError") ->
                               /\ Crash(ev)
                               /\ UNCHANGED <<i, sysmodules>>
                          [] o # "fail" /\ r = "ok" ->
                               /\ sysmodules' = Loaded(sysmodules, pk2, "blendmodes")
                               /\ trace' = trace \o ev \o
                                    <<Pr("blendmodes installed successfully")>>
                               /\ pc' = "fix_xformers_installation"
                               /\ i' = 1
                               /\ UNCHANGED exitcode
                          [] OTHER ->
                               /\ trace' = trace \o ev \o
                                    <<Pr(IF o = "fail" THEN st.name \o " failed"
                                         ELSE "blendmodes installed but import failed")>>
                                    \o failed
                               /\ i' = IF last THEN 1 ELSE i + 1
                               /\ pc' = IF last THEN "fix_xformers_installation"
                                        ELSE "fix_blendmodes_installation"
                               /\ UNCHANGED <<sysmodules, exitcode>>
    /\ UNCHANGED <<script, host, loc, files>>

\* fix_xformers_installation()'s strategies.
fpk_xformers_strategies == <<"xformers", "xformers==0.0.23", "xformers==0.0.22">>

\* fix_xformers_installation(), one strategy per step (the torch check runs
\* before the first): CalledProcessError and ImportError are caught.
fix_xformers_installation ==
    /\ script = "fix_package_conflicts" /\ pc = "fix_xformers_installation"
    /\ LET rt == ImportRes(sysmodules, pkgs, "torch")
           smt == Loaded(sysmodules, pkgs, "torch")
       IN CASE rt = "OSError" ->
                 /\ Crash(<<>>)
                 /\ UNCHANGED <<i, pkgs, sysmodules>>
            [] rt = "ImportError" \/ ~cuda_is_available(smt) ->
                 /\ sysmodules' = smt
                 /\ trace' = trace \o
                      <<Pr(IF rt = "ImportError" THEN "PyTorch not available"
                           ELSE "CUDA not available - cannot install xFormers")>>
                 /\ pc' = "verify_final_setup"
                 /\ UNCHANGED <<i, pkgs, exitcode>>
            [] OTHER ->
                 \E o \in PipOutcomes, b \in XformersBuilds :
                    LET ev == <<Pr("Trying xFormers: " \o fpk_xformers_strategies[i])>>
                              \o UninstallEv("uninstall xformers -y", pkgs, "xformers", "ok")
                              \o InstallEv("install " \o fpk_xformers_strategies[i],
                                           "xformers", o, b)
                        pk2 == Installed(Uninstalled(pkgs, {"xformers"}, {}), "xformers", o, b)
                        r == ImportRes(smt, pk2, "xformers")
                        sm2 == Loaded(smt, pk2, "xformers")
                        last == i = Len(fpk_xformers_strategies)
                    IN /\ pkgs' = pk2
                       /\ CASE o = "raise" \/ (o = "ok" /\ r = "OSError") ->
                                 /\ Crash(ev)
                                 /\ UNCHANGED <<i, sysmodules>>
                            [] o = "ok" /\ r = "ok" /\ sm2["xformers"] = "ok" ->
                                 /\ sysmodules' = sm2
                                 /\ trace' = trace \o ev \o
                                      <<Pr("xFormers memory efficient attention available")>>
                                 /\ pc' = "verify_final_setup"
                                 /\ UNCHANGED <<i, exitcode>>
                            [] OTHER ->
                                 /\ sysmodules' = IF o = "ok" THEN sm2 ELSE smt
                                 /\ trace' = trace \o ev \o
                                      <<Pr(fpk_xformers_strategies[i] \o
                                           (IF o = "fail" THEN " installation failed"
                                            ELSE " import failed"))>> \o
                                      (IF last
                                       THEN <<Pr("All xFormers installation strategies failed")>>
                                       ELSE <<>>)
                                 /\ i' = i + 1
                                 /\ pc' = IF last THEN "verify_final_setup"
                                          ELSE "fix_xformers_installation"
                                 /\ UNCHANGED exitcode
    /\ UNCHANGED <<script, host, loc, files>>

\* verify_final_setup() (each import catches ImportError only),
\* create_optimized_launch_script() (guarded) and the summary.
verify_final_setup ==
    /\ script = "fix_package_conflicts" /\ pc = "verify_final_setup"
    /\ IF \E m \in {"numpy", "torch", "gradio", "blendmodes", "xformers"} :
             ImportRes(sysmodules, pkgs, m) = "OSError"
       THEN /\ Crash(<<>>)
            /\ UNCHANGED files
       ELSE \E w \in {"ok", "fail"} :
               LET critical_working ==
                      /\ Loaded(sysmodules, pkgs, "numpy")["numpy"] = "1.26.4"
                      /\ cuda_is_available(Loaded(sysmodules, pkgs, "torch"))
                      /\ ImportRes(sysmodules, pkgs, "gradio") = "ok"
                   summary ==
                      <<Pr("PACKAGE CONFLICTS FIX SUMMARY"),
                        Pr(IF critical_working /\ w = "ok"
                           THEN "Critical package conflicts resolved!"
                           ELSE "Some critical issues remain:")>>
               IN IF w = "ok"
                  THEN /\ files' = [files EXCEPT !["webui_gpu_optimized.bat"] =
                                       "fix_package_conflicts"]
                       /\ trace' = trace \o <<Wr("webui_gpu_optimized.bat"),
                                              Pr("Created webui_gpu_optimized.bat")>> \o summary
                       /\ Exit(0)
                  ELSE /\ files' = files
                       /\ trace' = trace \o <<Pr("Failed to create script")>> \o summary
                       /\ Exit(0)
    /\ UNCHANGED <<script, host, i, loc, pkgs, sysmodules>>

(***************************************************************************)
(* fix_triton_conflict.py                                                  *)
(***************************************************************************)

\* check_current_installation() (ImportError caught, result not looked at)
\* and clean_triton_installations() (check=True, CalledProcessError caught).
clean_triton_installations ==
    /\ script = "fix_triton_conflict" /\ pc = "start"
    /\ IF ImportRes(sysmodules, pkgs, "torch") = "OSError"
          \/ (ImportRes(sysmodules, pkgs, "torch") = "ok"
              /\ ImportRes(sysmodules, pkgs, "triton") = "OSError")
       THEN /\ Crash(<<>>)
            /\ UNCHANGED <<pkgs, sysmodules, i>>
       ELSE \E u \in UninstallOutcomes :
               LET has_torch == ImportRes(sysmodules, pkgs, "torch") = "ok"
                   sm1 == Loaded(sysmodules, pkgs, "torch")
                   removed == u = "ok" /\ pkgs["triton"] # "absent"
               IN /\ sysmodules' = IF has_torch THEN Loaded(sm1, pkgs, "triton") ELSE sm1
                  /\ pkgs' = Uninstalled(pkgs, {"triton"}, IF removed THEN {} ELSE {"triton"})
                  /\ trace' = trace \o
                       <<Pr(IF has_torch THEN "PyTorch version" ELSE "PyTorch not installed")>>
                       \o UninstallEv("uninstall triton -y", pkgs, "triton",
                                      IF removed THEN "ok" ELSE "fail")
                       \o <<Pr(IF removed THEN "triton removed"
                               ELSE "triton not found or already removed")>>
                  /\ pc' = "ftc_strategies"
                  /\ i' = 1
                  /\ UNCHANGED exitcode
    /\ UNCHANGED <<script, host, loc, files>>

\* The three installs main tries, in order.
ftc_strategies ==
    <<"install_pytorch_with_compatible_triton", "install_pytorch_2_7", "install_cpu_fallback">>

ftc_install_cmd ==
    <<"install torch==2.5.1 --extra-index-url cu121",
      "install torch==2.7.0 --extra-index-url cu121",
      "install torch==2.5.1 --extra-index-url cpu">>

\* test_cuda_without_triton(): <<result, sys.modules after>>; torch and
\* triton are dropped from sys.modules and torch is imported again; every
\* exception is caught.
test_cuda_without_triton(pk, sm, ops_ok) ==
    LET sm0 == [sm EXCEPT !["torch"] = "none", !["triton"] = "none"]
        sm2 == Loaded(sm0, pk, "torch")
    IN <<sm2["torch"] = "cuda" /\ ops_ok, sm2>>

\* install_pytorch_with_compatible_triton(), install_pytorch_2_7() and
\* install_cpu_fallback(): uninstall torch (exit code ignored), install,
\* and for the first two the CUDA test.  Only CalledProcessError is caught.
ftc_strategy(k, pk, sm) ==
    { LET pk1 == Uninstalled(pk, {"torch"}, {})
          pk2 == Installed(pk1, "torch", o, b)
          ev == <<Pr("Trying " \o ftc_strategies[k])>>
                \o UninstallEv("uninstall torch torchvision torchaudio -y", pk, "torch", "ok")
                \o InstallEv(ftc_install_cmd[k], "torch", o, b)
          t == test_cuda_without_triton(pk2, sm, ops_ok)
      IN CASE o = "raise" -> Result(pk2, sm, ev, "raise")
           [] o = "fail" -> Result(pk2, sm, ev \o <<Pr("installation failed")>>, "False")
           [] k = 3 ->
                Result(pk2, sm, ev \o <<Pr("CPU-only PyTorch installed as fallback")>>, "True")
           [] t[1] ->
                Result(pk2, t[2], ev \o <<Pr("Basic CUDA operations working!")>>, "True")
           [] OTHER ->
                Result(pk2, t[2], ev \o <<Pr("CUDA test failed")>>, "False")
      : o \in PipOutcomes, b \in (IF k = 3 THEN {"cpu", "broken"} ELSE TorchBuilds),
        ops_ok \in BOOLEAN }

\* A main that restores the packages it found when a strategy fails.
ftc_kept_rollback(before, r) == IF r.ret = "True" THEN r.pkgs ELSE before

\* main, lines 244-257: `if not success: success = ...` three times; what a
\* failed strategy changed is left as it is.
ftc_kept(before, r) == r.pkgs

\* main's three strategies, one per step, and the report when none worked.
ftc_try_strategy ==
    /\ script = "fix_triton_conflict" /\ pc = "ftc_strategies"
    /\ \E r \in ftc_strategy(i, pkgs, sysmodules) :
          LET last == i = Len(ftc_strategies) IN
          /\ pkgs' = ftc_kept(pkgs, r)
          /\ sysmodules' = r.sysmodules
          /\ CASE r.ret = "raise" ->
                    /\ Crash(r.ev)
                    /\ UNCHANGED <<i, loc>>
               [] r.ret = "True" ->
                    /\ trace' = trace \o r.ev \o <<Pr("PyTorch installation successful!")>>
                    /\ loc' = [loc EXCEPT !["success"] = TRUE]
                    /\ pc' = "create_webui_config_without_triton"
                    /\ UNCHANGED <<i, exitcode>>
               [] OTHER ->
                    /\ trace' = trace \o r.ev \o
                         (IF last THEN <<Pr("All installation attempts failed")>> ELSE <<>>)
                    /\ i' = i + 1
                    /\ IF last THEN Exit(0)
                       ELSE pc' = "ftc_strategies" /\ UNCHANGED exitcode
                    /\ UNCHANGED loc
    /\ UNCHANGED <<script, host, files>>

\* create_webui_config_without_triton() (guarded) and main's closing lines.
create_webui_config_without_triton ==
    /\ script = "fix_triton_conflict" /\ pc = "create_webui_config_without_triton"
    /\ \E w \in {"ok", "fail"} :
          IF w = "ok"
          THEN /\ files' = [files EXCEPT !["webui_triton_fix.bat"] = "fix_triton_conflict"]
               /\ trace' = trace \o <<Wr("webui_triton_fix.bat"),
                                      Pr("Created webui_triton_fix.bat"),
                                      Pr("SUCCESS! Next steps:")>>
          ELSE /\ files' = files
               /\ trace' = trace \o <<Pr("Could not create config file"),
                                      Pr("SUCCESS! Next steps:")>>
    /\ Exit(0)
    /\ UNCHANGED <<script, host, i, loc, pkgs, sysmodules>>

(***************************************************************************)
(* fix_final_gpu_issues.py                                                 *)
(***************************************************************************)

\* try_xformers_alternatives()'s strategies, in the order of the list.
ffg_strategies ==
    << [name |-> "Latest xFormers", cmd |-> "xformers"],
       [name |-> "Pre-release xFormers", cmd |-> "xformers --pre"],
       [name |-> "Development xFormers",
        cmd |-> "git+https://github.com/facebookresearch/xformers.git"],
       [name |-> "Force install latest", cmd |-> "xformers --force-reinstall --no-cache-dir"],
       [name |-> "Skip xFormers", cmd |-> "skip"] >>

\* The head of try_xformers_alternatives(): the outer try catches only
\* ImportError.
ffg_check_torch ==
    /\ script = "fix_final_gpu_issues" /\ pc = "start"
    /\ LET r == ImportRes(sysmodules, pkgs, "torch")
           sm2 == Loaded(sysmodules, pkgs, "torch")
       IN CASE r = "OSError" ->
                 /\ Crash(<<>>)
                 /\ UNCHANGED sysmodules
            [] r = "ImportError" ->
                 /\ trace' = trace \o <<Pr("PyTorch not available")>>
                 /\ pc' = "create_launch_script_no_unicode"
                 /\ UNCHANGED <<sysmodules, exitcode>>
            [] ~cuda_is_available(sm2) ->
                 /\ sysmodules' = sm2
                 /\ trace' = trace \o <<Pr("CUDA not available - skipping xFormers")>>
                 /\ pc' = "create_launch_script_no_unicode"
                 /\ UNCHANGED exitcode
            [] OTHER ->
                 /\ sysmodules' = sm2
                 /\ trace' = trace \o <<Pr("PyTorch")>>
                 /\ pc' = "try_xformers_alternatives"
                 /\ UNCHANGED exitcode
    /\ UNCHANGED <<script, host, i, loc, pkgs, files>>

\* subprocess.run(..., check=True, timeout=300): as PipOutcomes, or
\* TimeoutExpired after the child was killed.  Killed(cmd) is the event that
\* the child running cmd was killed when the timeout ran out.
Killed(cmd) == [k |-> "killed", a |-> cmd]

TimedPipOutcomes == PipOutcomes \cup {"timeout"}

\* A loop whose only except clause is the one for CalledProcessError.
ffg_caught_called_process_error == {"fail"}

\* The outcomes of the install that the except clauses of the loop catch,
\* lines 82-90: CalledProcessError, TimeoutExpired and Exception.
ffg_caught == {"fail", "timeout", "raise"}

\* One iteration of the loop of try_xformers_alternatives(): "skip" returns
\* False; CalledProcessError, TimeoutExpired and every other exception of an
\* install strategy are caught and the loop continues.
try_xformers_alternatives ==
    /\ script = "fix_final_gpu_issues" /\ pc = "try_xformers_alternatives"
    /\ LET st == ffg_strategies[i]
           last == i = Len(ffg_strategies)
       IN IF st.cmd = "skip"
          THEN /\ trace' = trace \o <<Pr("Trying: " \o st.name),
                                      Pr("Skipping xFormers - WebUI will use standard attention")>>
               /\ pc' = "create_launch_script_no_unicode"
               /\ UNCHANGED <<i, loc, pkgs, sysmodules, exitcode>>
          ELSE \E o \in TimedPipOutcomes, b \in XformersBuilds :
                  LET ev == <<Pr("Trying: " \o st.name)>>
                            \o UninstallEv("uninstall xformers -y", pkgs, "xformers", "ok")
                            \o InstallEv("install " \o st.cmd, "xformers", o, b)
                            \o (IF o = "timeout" THEN <<Killed("install " \o st.cmd)>>
                                ELSE <<>>)
                      pk2 == Installed(Uninstalled(pkgs, {"xformers"}, {}), "xformers", o, b)
                      r == ImportRes(sysmodules, pk2, "xformers")
                      sm2 == Loaded(sysmodules, pk2, "xformers")
                  IN /\ pkgs' = pk2
                     /\ IF o \notin {"ok"} \cup ffg_caught
                        THEN /\ Crash(ev)
                             /\ UNCHANGED <<i, loc, sysmodules>>
                        ELSE IF o = "ok" /\ r = "ok" /\ sm2["xformers"] = "ok"
                        THEN /\ sysmodules' = sm2
                             /\ trace' = trace \o ev \o
                                  <<Pr("SUCCESS: Memory efficient attention available")>>
                             /\ loc' = [loc EXCEPT !["xformers_installed"] = TRUE]
                             /\ pc' = "create_launch_script_no_unicode"
                             /\ UNCHANGED <<i, exitcode>>
                        ELSE /\ sysmodules' = IF o = "ok" THEN sm2 ELSE sysmodules
                             /\ trace' = trace \o ev \o
                                  <<Pr("FAILED: " \o st.name \o
                                       (CASE o = "fail" -> " installation failed"
                                          [] o = "timeout" -> " installation timed out"
                                          [] o = "raise" -> " unexpected error"
                                          [] r = "OSError" -> " unexpected error"
                                          [] OTHER -> " xFormers import failed"))>> \o
                                  (IF last
                                   THEN <<Pr("All xFormers installation strategies failed")>>
                                   ELSE <<>>)
                             /\ i' = i + 1
                             /\ pc' = IF last THEN "create_launch_script_no_unicode"
                                      ELSE "try_xformers_alternatives"
                             /\ UNCHANGED <<loc, exitcode>>
    /\ UNCHANGED <<script, host, files>>

\* create_launch_script_no_unicode() and create_performance_test_script()
\* (both guarded), verify_final_setup() (its imports catch ImportError only;
\* it tests whether the launcher exists) and the summary.
create_launch_script_no_unicode ==
    /\ script = "fix_final_gpu_issues" /\ pc = "create_launch_script_no_unicode"
    /\ \E w \in {"ok", "fail"}, wt \in {"ok", "fail"} :
          LET f == "webui_gpu_rtx3080_final.bat"
              t == "test_gpu_performance.py"
              ev == (IF w = "ok" THEN <<Wr(f), Pr("Created launch script")>>
                     ELSE <<Pr("ERROR: Could not create launch script")>>) \o
                    (IF wt = "ok" THEN <<Wr(t)>> ELSE <<>>)
              crash == \E m \in {"torch", "numpy", "gradio", "xformers"} :
                          ImportRes(sysmodules, pkgs, m) = "OSError"
              critical_working == /\ cuda_is_available(sysmodules)
                                  /\ ImportRes(sysmodules, pkgs, "numpy") = "ok"
                                  /\ ImportRes(sysmodules, pkgs, "gradio") = "ok"
          IN /\ files' = [files EXCEPT ![f] = IF w = "ok" THEN "fix_final_gpu_issues" ELSE @,
                                       ![t] = IF wt = "ok" THEN "fix_final_gpu_issues" ELSE @]
             /\ IF crash
                THEN Crash(ev)
                ELSE /\ trace' = trace \o ev \o
                          <<Pr("FINAL GPU OPTIMIZATION SUMMARY"),
                            Pr(IF critical_working /\ w = "ok"
                               THEN "SUCCESS: RTX 3080 GPU acceleration ready!"
                               ELSE "WARNING: Some issues remain")>>
                     /\ Exit(0)
    /\ UNCHANGED <<script, host, i, loc, pkgs, sysmodules>>

(***************************************************************************)
(* fix_blendmodes_final.py                                                 *)
(***************************************************************************)

\* install_compatible_blendmodes()'s strategies, in the order of the list.
fbf_strategies ==
    << [cmd |-> "blendmodes==2022", name |-> "Specific 2022 version"],
       [cmd |-> "blendmodes>=2020,<2025", name |-> "Range compatible version"],
       [cmd |-> "blendmodes==2021", name |-> "Alternative 2021 version"],
       [cmd |-> "blendmodes --no-deps", name |-> "Install without dependencies"],
       [cmd |-> "manual_install", name |-> "Manual installation fallback"] >>

\* `from blendmodes.blend import blendLayers, BlendType`: a package
\* installed without what it depends on ("nodeps") raises ImportError.
blend_import(sm, pk) ==
    IF sm["blendmodes"] = "none" /\ pk["blendmodes"] = "nodeps" THEN "ImportError"
    ELSE ImportRes(sm, pk, "blendmodes")

BlendmodesBuilds == {"ok", "nodeps", "broken"}

\* One iteration of the loop of install_compatible_blendmodes():
\* "manual_install" returns create_blendmodes_fallback() (guarded, writes
\* the package by hand); every exception of an install strategy is caught.
install_compatible_blendmodes ==
    /\ script = "fix_blendmodes_final" /\ pc = "start"
    /\ LET st == fbf_strategies[i] IN
       IF st.cmd = "manual_install"
       THEN \E w \in {"ok", "fail"} :
               LET pk2 == IF w = "ok" THEN [pkgs EXCEPT !["blendmodes"] = "fallback"] ELSE pkgs
                   ok == w = "ok" /\ blend_import(sysmodules, pk2) = "ok"
               IN /\ pkgs' = pk2
                  /\ sysmodules' = IF ok THEN Loaded(sysmodules, pk2, "blendmodes")
                                   ELSE sysmodules
                  /\ trace' = trace \o
                       <<Pr("Trying: " \o st.name),
                         Pr(IF ok THEN "blendmodes fallback created and working"
                            ELSE "Fallback creation failed")>>
                  /\ loc' = [loc EXCEPT !["success"] = ok]
                  /\ pc' = "patch_processing_py_if_needed"
                  /\ UNCHANGED i
       ELSE \E o \in PipOutcomes, b \in BlendmodesBuilds :
               LET ev == <<Pr("Trying: " \o st.name)>>
                         \o UninstallEv("uninstall blendmodes -y", pkgs, "blendmodes", "ok")
                         \o InstallEv("install " \o st.cmd, "blendmodes", o, b)
                   pk2 == Installed(Uninstalled(pkgs, {"blendmodes"}, {}), "blendmodes", o, b)
                   r == blend_import(sysmodules, pk2)
               IN /\ pkgs' = pk2
                  /\ IF o = "ok" /\ r = "ok"
                     THEN /\ sysmodules' = Loaded(sysmodules, pk2, "blendmodes")
                          /\ trace' = trace \o ev \o
                               <<Pr("SUCCESS: " \o st.name \o " - blendmodes working")>>
                          /\ loc' = [loc EXCEPT !["success"] = TRUE]
                          /\ pc' = "patch_processing_py_if_needed"
                          /\ UNCHANGED i
                     ELSE /\ trace' = trace \o ev \o
                               <<Pr(CASE o = "fail" -> "Installation failed"
                                      [] o = "raise" -> "Unexpected error"
                                      [] r = "OSError" -> "Unexpected error"
                                      [] OTHER -> "Import test failed")>>
                          /\ i' = i + 1
                          /\ pc' = "start"
                          /\ UNCHANGED <<sysmodules, loc>>
    /\ UNCHANGED <<script, host, files, exitcode>>

\* patch_processing_py_if_needed() (every exception caught: the backup is
\* written from the text as read, then the patched text), then
\* verify_webui_imports() (only ImportError is caught) and the summary.
\* processing.py is "absent", holds the blendmodes import ("blend_import"),
\* holds the patch ("blend_patched") or neither ("other").
patch_processing_py_if_needed ==
    /\ script = "fix_blendmodes_final" /\ pc = "patch_processing_py_if_needed"
    /\ \E w \in {"ok", "nobackup", "nowrite"} :
          LET f == "modules/processing.py"
              b == "modules/processing.py.blendmodes_backup"
              r == blend_import(sysmodules, pkgs)
              patch == CASE files[f] = "absent" ->
                              [files |-> files, ev |-> <<Pr("modules/processing.py not found")>>]
                        [] files[f] = "blend_patched" ->
                              [files |-> files, ev |-> <<Pr("processing.py already patched")>>]
                        [] files[f] # "blend_import" ->
                              [files |-> files, ev |-> <<Pr("processing.py doesn't need patching")>>]
                        [] w = "ok" ->
                              [files |-> [files EXCEPT ![b] = files[f], ![f] = "blend_patched"],
                               ev |-> <<Wr(b), Wr(f), Pr("Patched modules/processing.py")>>]
                        [] w = "nowrite" ->
                              [files |-> [files EXCEPT ![b] = files[f]],
                               ev |-> <<Wr(b), Pr("Error patching modules/processing.py")>>]
                        [] OTHER ->
                              [files |-> files, ev |-> <<Pr("Error patching modules/processing.py")>>]
          IN /\ files' = patch.files
             /\ IF r = "OSError"
                THEN Crash(patch.ev)
                ELSE /\ trace' = trace \o patch.ev \o
                          <<Pr(IF r = "ok" THEN "blendmodes.blend import successful"
                               ELSE "Import verification failed"),
                            Pr("BLENDMODES FIX SUMMARY"),
                            Pr(IF loc["success"] /\ r = "ok"
                               THEN "blendmodes import error RESOLVED!"
                               ELSE "Some issues remain:")>>
                     /\ Exit(0)
    /\ UNCHANGED <<script, host, i, loc, pkgs, sysmodules>>

(***************************************************************************)
(* install_core_deps.py                                                    *)
(***************************************************************************)

\* install_core_dependencies()'s list, in order.
core_deps ==
    <<"packaging", "setuptools", "wheel", "pip", "importlib-metadata",
      "typing-extensions", "certifi", "charset-normalizer", "idna", "urllib3",
      "requests", "six", "python-dateutil", "pytz", "zipp">>

\* test_other_essential_imports()'s list, each module by the name of the
\* distribution that provides it.
essential_modules ==
    <<"setuptools", "wheel", "importlib-metadata", "typing-extensions",
      "requests", "certifi", "urllib3">>

\* How many installs of the loop have failed so far.
icd_failed(tr) ==
    Cardinality({ j \in 1..Len(tr) :
                    \E k \in 1..Len(core_deps) : tr[j] = Pr(core_deps[k] \o " failed") })

\* The runs explored have at most this many failing installs in the loop.
MaxFailedDeps == 2

\* clear_pip_cache(): CalledProcessError is caught and the step reports
\* success either way.
clear_pip_cache ==
    /\ script = "install_core_deps" /\ pc = "start"
    /\ \E o \in PipOutcomes :
          IF o = "raise"
          THEN Crash(<<Pip("cache purge")>>)
          ELSE /\ trace' = trace \o
                    <<Pip("cache purge"),
                      Pr(IF o = "ok" THEN "Pip cache cleared"
                         ELSE "Could not clear pip cache (not critical)")>>
               /\ pc' = "upgrade_pip"
               /\ UNCHANGED exitcode
    /\ UNCHANGED <<script, host, i, loc, pkgs, sysmodules, files>>

\* upgrade_pip(): CalledProcessError is caught.
upgrade_pip ==
    /\ script = "install_core_deps" /\ pc = "upgrade_pip"
    /\ \E o \in PipOutcomes :
          LET ev == InstallEv("install --upgrade pip", "pip", o, "ok") IN
          /\ pkgs' = Installed(pkgs, "pip", o, "ok")
          /\ IF o = "raise"
             THEN Crash(ev)
             ELSE /\ trace' = trace \o ev \o
                       <<Pr(IF o = "ok" THEN "Pip upgraded successfully"
                            ELSE "Pip upgrade failed")>>
                  /\ pc' = "install_core_dependencies"
                  /\ UNCHANGED exitcode
    /\ UNCHANGED <<script, host, i, loc, sysmodules, files>>

\* One iteration of the loop of install_core_dependencies(), lines 43-53:
\* the install has its own try, which catches CalledProcessError.
install_core_dependencies ==
    /\ script = "install_core_deps" /\ pc = "install_core_dependencies"
    /\ \E o \in (IF icd_failed(trace) < MaxFailedDeps THEN PipOutcomes ELSE {"ok"}) :
          LET dep == core_deps[i]
              ev == <<Pr("Installing " \o dep)>>
                    \o InstallEv("install " \o dep \o " --upgrade", dep, o, "ok")
              last == i = Len(core_deps)
          IN /\ pkgs' = Installed(pkgs, dep, o, "ok")
             /\ IF o = "raise"
                THEN /\ Crash(ev)
                     /\ UNCHANGED i
                ELSE /\ trace' = trace \o ev \o
                          <<Pr(IF o = "ok" THEN dep ELSE dep \o " failed")>> \o
                          (IF last THEN <<Pr("Results")>> ELSE <<>>)
                     /\ i' = i + 1
                     /\ pc' = IF last THEN "test_packaging_import"
                              ELSE "install_core_dependencies"
                     /\ UNCHANGED exitcode
    /\ UNCHANGED <<script, host, loc, sysmodules, files>>

\* test_packaging_import(): every exception is caught.
test_packaging_import ==
    /\ script = "install_core_deps" /\ pc = "test_packaging_import"
    /\ LET r == ImportRes(sysmodules, pkgs, "packaging") IN
       /\ sysmodules' = Loaded(sysmodules, pkgs, "packaging")
       /\ trace' = trace \o
            <<Pr(CASE r = "ok" -> "Version parsing works"
                   [] r = "ImportError" -> "packaging import failed"
                   [] OTHER -> "packaging test failed")>>
       /\ loc' = [loc EXCEPT !["packaging_works"] = r = "ok"]
    /\ pc' = "test_other_essential_imports"
    /\ UNCHANGED <<script, host, i, pkgs, files, exitcode>>

\* test_other_essential_imports() (only ImportError is caught) and main's
\* summary, lines 160-184.
test_other_essential_imports ==
    /\ script = "install_core_deps" /\ pc = "test_other_essential_imports"
    /\ LET N == Len(essential_modules)
           res == [k \in 1..N |-> ImportRes(sysmodules, pkgs, essential_modules[k])]
           working == Cardinality({ k \in 1..N : res[k] = "ok" })
           other_modules_work == 10 * working >= 8 * N
       IN IF \E k \in 1..N : res[k] = "OSError"
          THEN Crash(<<>>)
          ELSE /\ trace' = trace \o
                    <<Pr("Working modules"),
                      Pr("INSTALLATION SUMMARY"),
                      Pr(CASE loc["packaging_works"] /\ other_modules_work ->
                                "All core dependencies installed successfully!"
                           [] loc["packaging_works"] -> "Packaging module fixed!"
                           [] OTHER -> "Packaging module installation failed")>>
               /\ Exit(0)
    /\ UNCHANGED <<script, host, i, loc, pkgs, sysmodules, files>>

(***************************************************************************)
(* quick_package_fix.py                                                    *)
(***************************************************************************)

\* install_prebuilt_packages()'s list: the requirement and the distribution.
qpf_packages ==
    << [req |-> "open-clip-torch==2.24.0", dist |-> "open-clip-torch"],
       [req |-> "clip-by-openai", dist |-> "clip-by-openai"],
       [req |-> "transformers", dist |-> "transformers"],
       [req |-> "tokenizers", dist |-> "tokenizers"],
       [req |-> "sentencepiece==0.1.99", dist |-> "sentencepiece"] >>

\* test_imports()'s list: the module and the distribution that provides it.
test_packages ==
    << [module |-> "torch", dist |-> "torch"],
       [module |-> "open_clip", dist |-> "open-clip-torch"],
       [module |-> "clip", dist |-> "clip-by-openai"],
       [module |-> "transformers", dist |-> "transformers"] >>

\* One iteration of the loop of install_prebuilt_packages(), lines 23-31:
\* CalledProcessError is caught and the loop goes on.
install_prebuilt_packages ==
    /\ script = "quick_package_fix" /\ pc = "start"
    /\ \E o \in PipOutcomes, b \in PlainBuilds :
          LET p == qpf_packages[i]
              ev == <<Pr("Installing " \o p.req)>> \o InstallEv("install " \o p.req, p.dist, o, b)
          IN /\ pkgs' = Installed(pkgs, p.dist, o, b)
             /\ IF o = "raise"
                THEN /\ Crash(ev)
                     /\ UNCHANGED i
                ELSE /\ trace' = trace \o ev \o
                          <<Pr(IF o = "ok" THEN p.req \o " installed"
                               ELSE p.req \o " failed, continuing...")>>
                     /\ i' = i + 1
                     /\ pc' = IF i = Len(qpf_packages) THEN "test_imports" ELSE "start"
                     /\ UNCHANGED exitcode
    /\ UNCHANGED <<script, host, loc, sysmodules, files>>

\* test_imports() (only ImportError is caught) and the closing lines of
\* __main__, which are printed whatever happened before.
test_imports ==
    /\ script = "quick_package_fix" /\ pc = "test_imports"
    /\ LET N == Len(test_packages)
           res == [k \in 1..N |-> ImportRes(sysmodules, pkgs, test_packages[k].dist)]
           line(k) == Pr(test_packages[k].module \o
                         (IF res[k] = "ok" THEN " working" ELSE " not working"))
       IN IF \E k \in 1..N : res[k] = "OSError"
          THEN Crash(<<>>)
          ELSE /\ trace' = trace \o [k \in 1..N |-> line(k)] \o
                                    <<Pr("Quick fix completed!")>>
               /\ Exit(0)
    /\ UNCHANGED <<script, host, i, loc, pkgs, sysmodules, files>>

(***************************************************************************)
(* fix_image_generation.py                                                 *)
(***************************************************************************)

\* The module's own imports, lines 14-16: numpy, PIL and torch are imported
\* before any function runs and outside every try.
fig_imports == <<"numpy", "pillow", "torch">>

fig_module_imports ==
    /\ script = "fix_image_generation" /\ pc = "start"
    /\ IF \E k \in 1..Len(fig_imports) : ImportRes(sysmodules, pkgs, fig_imports[k]) # "ok"
       THEN /\ Crash(<<>>)
            /\ UNCHANGED sysmodules
       ELSE /\ sysmodules' = Loaded(Loaded(Loaded(sysmodules, pkgs, "numpy"),
                                           pkgs, "pillow"), pkgs, "torch")
            /\ trace' = trace \o <<Pr("Image Generation Fix for Python 3.13 CPU-only Mode")>>
            /\ pc' = "diagnose_torch_environment"
            /\ UNCHANGED exitcode
    /\ UNCHANGED <<script, host, i, loc, pkgs, files>>

\* diagnose_torch_environment() and test_image_processing_pipeline(): both
\* catch every exception.  The pipeline test saves test_pattern.png, then
\* test_reverse.png.
diagnose_torch_environment ==
    /\ script = "fix_image_generation" /\ pc = "diagnose_torch_environment"
    /\ \E torch_ok \in BOOLEAN, saved \in {"both", "pattern", "none"} :
          /\ files' = [files EXCEPT
                         !["test_pattern.png"] = IF saved = "none" THEN @ ELSE "pattern",
                         !["test_reverse.png"] = IF saved = "both" THEN "reverse" ELSE @]
          /\ trace' = trace \o
               <<Pr(IF torch_ok THEN "NumPy to PIL conversion"
                    ELSE "Tensor processing test failed")>> \o
               (IF saved = "none" THEN <<>> ELSE <<Wr("test_pattern.png")>>) \o
               (IF saved = "both"
                THEN <<Wr("test_reverse.png"), Pr("Reverse conversion test saved")>>
                ELSE <<Pr("Image processing pipeline test failed")>>)
          /\ loc' = [loc EXCEPT !["torch_ok"] = torch_ok,
                                !["pipeline_ok"] = saved = "both"]
    /\ pc' = "patch_webui_image_processing"
    /\ UNCHANGED <<script, host, i, pkgs, sysmodules, exitcode>>

\* What patch_webui_image_processing() makes of the text of processing.py.
\* "both" holds the decode_latent_batch signature and a definition of
\* images_tensor_to_samples, "samples" only the latter, "other" neither;
\* the marker the function looks for comes with the first patch only.
processing_patched_text(c) ==
    CASE c = "both" -> "cpu_patched"
      [] c = "samples" -> "samples_patched"
      [] OTHER -> c

\* patch_webui_image_processing(), every exception caught.  The backup is
\* written from `content` after the patches were applied to it.
patch_webui_image_processing ==
    /\ script = "fix_image_generation" /\ pc = "patch_webui_image_processing"
    /\ \E w \in {"ok", "nobackup", "nowrite"} :
          LET f == "modules/processing.py"
              b == "modules/processing.py.image_gen_backup"
              c == files[f]
              new == processing_patched_text(c)
          IN CASE c = "absent" ->
                    /\ files' = files
                    /\ trace' = trace \o <<Pr("modules/processing.py not found")>>
                    /\ loc' = loc
               [] c = "cpu_patched" ->
                    /\ files' = files
                    /\ trace' = trace \o <<Pr("modules/processing.py already patched")>>
                    /\ loc' = [loc EXCEPT !["processing_patched"] = TRUE]
               [] new = c ->
                    /\ files' = files
                    /\ trace' = trace \o <<Pr("No patches needed for processing.py")>>
                    /\ loc' = [loc EXCEPT !["processing_patched"] = TRUE]
               [] w = "ok" ->
                    /\ files' = [files EXCEPT ![b] = new, ![f] = new]
                    /\ trace' = trace \o <<Wr(b), Wr(f),
                                           Pr("Applied patches to modules/processing.py")>>
                    /\ loc' = [loc EXCEPT !["processing_patched"] = TRUE]
               [] w = "nowrite" ->
                    /\ files' = [files EXCEPT ![b] = new]
                    /\ trace' = trace \o <<Wr(b), Pr("Error patching modules/processing.py")>>
                    /\ loc' = loc
               [] OTHER ->
                    /\ files' = files
                    /\ trace' = trace \o <<Pr("Error patching modules/processing.py")>>
                    /\ loc' = loc
    /\ pc' = "patch_webui_images_module"
    /\ UNCHANGED <<script, host, i, pkgs, sysmodules, exitcode>>

\* What patch_webui_images_module() makes of the text of images.py:
\* "imports" has an import followed by a blank line, "other" has not.
images_patched_text(c) == IF c = "imports" THEN "cpu_fix" ELSE c

\* patch_webui_images_module(), every exception caught.  The backup is
\* written from `content` after the fix was inserted into it.
patch_webui_images_module ==
    /\ script = "fix_image_generation" /\ pc = "patch_webui_images_module"
    /\ \E w \in {"ok", "nobackup", "nowrite"} :
          LET f == "modules/images.py"
              b == "modules/images.py.cpu_fix_backup"
              c == files[f]
              new == images_patched_text(c)
          IN CASE c = "absent" ->
                    /\ files' = files
                    /\ trace' = trace \o <<Pr("modules/images.py not found")>>
                    /\ loc' = loc
               [] c = "cpu_fix" ->
                    /\ files' = files
                    /\ trace' = trace \o <<Pr("modules/images.py already patched")>>
                    /\ loc' = [loc EXCEPT !["images_patched"] = TRUE]
               [] new = c ->
                    /\ files' = files
                    /\ trace' = trace \o <<Pr("images.py doesn't need patching")>>
                    /\ loc' = [loc EXCEPT !["images_patched"] = TRUE]
               [] w = "ok" ->
                    /\ files' = [files EXCEPT ![b] = new, ![f] = new]
                    /\ trace' = trace \o <<Wr(b), Wr(f),
                                           Pr("Added CPU image processing fix to images.py")>>
                    /\ loc' = [loc EXCEPT !["images_patched"] = TRUE]
               [] w = "nowrite" ->
                    /\ files' = [files EXCEPT ![b] = new]
                    /\ trace' = trace \o <<Wr(b), Pr("Error patching modules/images.py")>>
                    /\ loc' = loc
               [] OTHER ->
                    /\ files' = files
                    /\ trace' = trace \o <<Pr("Error patching modules/images.py")>>
                    /\ loc' = loc
    /\ pc' = "create_cpu_optimization_script"
    /\ UNCHANGED <<script, host, i, pkgs, sysmodules, exitcode>>

\* create_cpu_optimization_script() and test_webui_image_generation() (both
\* catch every exception) and main's summary, lines 335-363.
create_cpu_optimization_script ==
    /\ script = "fix_image_generation" /\ pc = "create_cpu_optimization_script"
    /\ \E w \in {"ok", "fail"}, webui_ok \in BOOLEAN :
          /\ files' = [files EXCEPT !["cpu_optimization.bat"] =
                          IF w = "ok" THEN "cpu_script" ELSE @]
          /\ trace' = trace \o
               (IF w = "ok" THEN <<Wr("cpu_optimization.bat"), Pr("Created cpu_optimization.bat")>>
                ELSE <<Pr("Error creating CPU optimization script")>>) \o
               <<Pr(IF webui_ok THEN "WebUI modules imported successfully"
                    ELSE "WebUI module import failed"),
                 Pr("IMAGE GENERATION FIX SUMMARY"),
                 Pr(IF loc["torch_ok"] /\ loc["pipeline_ok"] /\ loc["processing_patched"]
                       /\ loc["images_patched"]
                    THEN "Image generation issues should be resolved!"
                    ELSE "Some image generation issues may remain")>>
    /\ Exit(0)
    /\ UNCHANGED <<script, host, i, loc, pkgs, sysmodules>>

(***************************************************************************)
(* The runs                                                                *)
(***************************************************************************)

Absent == [p \in Packages |-> "absent"]

\* The environments a script can be started in.
InitEnvs(s) ==
    CASE s = "fix_pytorch_installation" ->
           { [Absent EXCEPT !["torch"] = t, !["xformers"] = x] :
               t \in TorchBuilds \cup {"absent"}, x \in {"absent", "ok"} }
      [] s = "fix_pytorch_python313" ->
           { [Absent EXCEPT !["torch"] = t] : t \in TorchBuilds \cup {"absent"} }
      [] s = "install_xformers_python313" ->
           { [Absent EXCEPT !["torch"] = t, !["xformers"] = x] :
               t \in TorchBuilds \cup {"absent"}, x \in XformersBuilds \cup {"absent"} }
      [] s \in {"fix_pytorch_cuda", "setup_gpu_acceleration"} ->
           { [Absent EXCEPT !["torch"] = t] : t \in TorchBuilds \cup {"absent"} }
      [] s = "fix_grey_images" ->
           { [Absent EXCEPT !["requests"] = r] : r \in {"ok", "absent"} }
      [] s = "fix_pytorch_lightning_imports" ->
           { [Absent EXCEPT !["pytorch_lightning"] = b] : b \in PlainBuilds \cup {"absent"} }
      [] s = "fix_gradio_compatibility" ->
           { [Absent EXCEPT !["gradio"] = b] : b \in GradioBuilds \cup {"absent"} }
      [] s = "fix_package_conflicts" ->
           { [p \in Packages |->
                CASE p = "numpy" -> n
                  [] p = "torch" -> t
                  [] p = "gradio" -> "v3"
                  [] p \in {"scipy", "scikit-image", "opencv-python", "pillow",
                            "torchvision"} -> "ok"
                  [] OTHER -> "absent"] :
               n \in {"2.x", "absent"}, t \in TorchBuilds \cup {"absent"} }
      [] s = "fix_triton_conflict" ->
           { [Absent EXCEPT !["torch"] = t, !["triton"] = tr] :
               t \in TorchBuilds \cup {"absent"}, tr \in PlainBuilds \cup {"absent"} }
      [] s = "fix_final_gpu_issues" ->
           { [Absent EXCEPT !["torch"] = t, !["xformers"] = x,
                            !["numpy"] = "1.26.4", !["gradio"] = "v3"] :
               t \in TorchBuilds \cup {"absent"}, x \in {"absent", "nomea"} }
      [] s = "fix_blendmodes_final" ->
           { [Absent EXCEPT !["blendmodes"] = b, !["torch"] = "cuda",
                            !["numpy"] = "1.26.4", !["gradio"] = "v3"] :
               b \in {"absent", "nodeps"} }
      [] s = "install_core_deps" ->
           { [p \in Packages |->
                CASE p = "pip" -> "ok"
                  [] p = "requests" -> r
                  [] p \in { core_deps[k] : k \in 1..Len(core_deps) } -> d
                  [] OTHER -> "absent"] :
               d \in {"absent", "ok"}, r \in PlainBuilds \cup {"absent"} }
      [] s = "quick_package_fix" ->
           { [Absent EXCEPT !["torch"] = t] : t \in {"cpu", "absent"} }
      [] s = "fix_image_generation" ->
           { [Absent EXCEPT !["numpy"] = n, !["pillow"] = p, !["torch"] = t] :
               n \in {"1.26.4", "absent"}, p \in {"ok", "absent"},
               t \in {"cpu", "broken", "absent"} }
      [] OTHER -> {Absent}

\* The files a run can find on disk.
NoFiles == [f \in FileNames |-> "absent"]

InitFiles(s) ==
    CASE s = "fix_grey_images" ->
           { f \in { [NoFiles EXCEPT !["ui-config.json"] = u, !["models"] = m,
                                     ![vae_filename] = v] :
                       u \in {"absent", "{not json"}
                             \cup { JsonObjectText(o) : o \in JsonObjects },
                       m \in {"absent", "dir"},
                       v \in {"absent", "complete", "partial"} } :
               f["models"] = "absent" => f[vae_filename] = "absent" }
      [] s = "fix_pytorch_lightning_imports" ->
           { [NoFiles EXCEPT !["modules/sd_models.py"] = c] :
               c \in {"absent", "clean", "pl_import", "pl_patched"} }
      [] s = "fix_gradio_compatibility" ->
           { [NoFiles EXCEPT !["modules/gradio_extensons.py"] = c] :
               c \in {"absent", "iocomponent", "gradio_patched", "other"} }
      [] s = "fix_blendmodes_final" ->
           { [NoFiles EXCEPT !["modules/processing.py"] = c] :
               c \in {"absent", "blend_import", "blend_patched", "other"} }
      [] s = "fix_image_generation" ->
           { [NoFiles EXCEPT !["modules/processing.py"] = c, !["modules/images.py"] = m] :
               c \in {"absent", "both", "samples", "other", "cpu_patched",
                       "samples_patched"},
               m \in {"absent", "imports", "other", "cpu_fix"} }
      [] OTHER -> {NoFiles}

\* The hosts a script can be started on.
InitHosts(s) ==
    IF s = "fix_pytorch_python313"
    THEN [py313 : BOOLEAN, windows : BOOLEAN]
    ELSE { [py313 |-> TRUE, windows |-> TRUE] }

Init ==
    /\ script \in Scripts
    /\ host \in InitHosts(script)
    /\ pc = "start"
    /\ i = 1
    /\ loc = NoLocals
    /\ pkgs \in InitEnvs(script)
    /\ sysmodules = [m \in Packages |-> "none"]
    /\ files \in InitFiles(script)
    /\ trace = <<>>
    /\ exitcode = -1

Next ==
    \/ fpi_check_environment
    \/ fpi_cuda_check
    \/ clean_pytorch_remnants
    \/ fpi_try_strategy
    \/ test_gpu_functionality
    \/ fpi_install_xformers
    \/ fpi_summary
    \/ create_recovery_script
    \/ check_pytorch_availability
    \/ fp313_standard_pytorch
    \/ fp313_try_solution
    \/ create_environment_override
    \/ test_pytorch_installation
    \/ check_pytorch
    \/ check_existing_xformers
    \/ install_xformers_strategies
    \/ install_alternative_optimizations
    \/ create_fallback_launcher
    \/ ixf_input
    \/ check_current_pytorch
    \/ fpc_cuda_check
    \/ uninstall_current_pytorch
    \/ install_cuda_pytorch
    \/ update_webui_config
    \/ detect_system_specs
    \/ install_gpu_pytorch
    \/ create_gpu_webui_config
    \/ check_current_vae_config
    \/ download_recommended_vae
    \/ configure_vae_in_ui_config
    \/ create_vae_fix_launch_script
    \/ test_pytorch_lightning_version
    \/ install_compatible_pytorch_lightning
    \/ find_pytorch_lightning_import_files
    \/ patch_pytorch_lightning_imports
    \/ check_gradio_version
    \/ install_compatible_gradio
    \/ patch_gradio_extensions
    \/ fix_numpy_downgrade
    \/ fix_numpy_essential
    \/ fix_numpy_torchvision
    \/ fix_blendmodes_installation
    \/ fix_xformers_installation
    \/ verify_final_setup
    \/ clean_triton_installations
    \/ ftc_try_strategy
    \/ create_webui_config_without_triton
    \/ ffg_check_torch
    \/ try_xformers_alternatives
    \/ create_launch_script_no_unicode
    \/ install_compatible_blendmodes
    \/ patch_processing_py_if_needed
    \/ clear_pip_cache
    \/ upgrade_pip
    \/ install_core_dependencies
    \/ test_packaging_import
    \/ test_other_essential_imports
    \/ install_prebuilt_packages
    \/ test_imports
    \/ fig_module_imports
    \/ diagnose_torch_environment
    \/ patch_webui_image_processing
    \/ patch_webui_images_module
    \/ create_cpu_optimization_script

Spec == Init /\ [][Next]_vars

(***************************************************************************)
(* Reading the trace                                                       *)
(***************************************************************************)

\* The position of the last event of M before position j, or 0.
LastMarker(tr, M, j) ==
    LET P == { q \in 1..(j - 1) : tr[q] \in M }
    IN IF P = {} THEN 0 ELSE CHOOSE q \in P : \A r \in P : r <= q

Occurs(tr, e) == \E j \in 1..Len(tr) : tr[j] = e

\* A strategy sequence read off a trace.  try[k] is the line announcing
\* strategy k, eff[k] the commands that are its effect, succ[k] the line
\* reporting that it verified.  Strategies are announced once each and in
\* list order, a command runs only inside its own strategy, a success is
\* reported for the strategy that ran last, and nothing of the sequence
\* follows a success.  succ[k] is a set of lines.
OrderedFirstSuccess(tr, try, succ, eff) ==
    LET N == Len(try)
        M == { try[k] : k \in 1..N }
        E == UNION { eff[k] : k \in 1..N }
        S == UNION { succ[k] : k \in 1..N }
    IN \A j \in 1..Len(tr) :
         LET m == LastMarker(tr, M, j) IN
         /\ \A k \in 1..N : tr[j] = try[k] =>
               IF k = 1 THEN m = 0 ELSE m # 0 /\ tr[m] = try[k - 1]
         /\ \A k \in 1..N : tr[j] \in eff[k] => m # 0 /\ tr[m] = try[k]
         /\ tr[j] \in S =>
               /\ m # 0
               /\ \E k \in 1..N :
                     /\ tr[m] = try[k] /\ tr[j] \in succ[k]
                     /\ \E q \in (m + 1)..(j - 1) : tr[q] \in eff[k]
               /\ \A q \in (j + 1)..Len(tr) : tr[q] \notin M \cup E

(***************************************************************************)
(* The strategy sequences of the scripts, as they show in the trace        *)
(***************************************************************************)

fpi_try == [k \in 1..3 |-> Pr("Trying: " \o fpi_strategies[k])]
fpi_succ == [k \in 1..3 |-> {Pr("Success with: " \o fpi_strategies[k])}]
fpi_eff ==
    << {Pip("install torch torchvision torchaudio --index-url cu118")},
       {Pip("install torch torchvision torchaudio"),
        Pip("install torch torchvision torchaudio --upgrade --index-url cu118")},
       {Pip("install --pre torch torchvision torchaudio --index-url nightly/cu121")} >>

fp313_try == [k \in 1..3 |-> Pr("Trying " \o fp313_solutions[k])]
fp313_succ ==
    << { Pr("CUDA verification successful! " \o cuda_versions[k]) : k \in 1..3 },
       {Pr("PyTorch nightly installation successful!")},
       {Pr("CPU-only PyTorch installation successful!")} >>
fp313_eff ==
    << { Pip("install --force-reinstall torch " \o cuda_versions[k]) : k \in 1..3 },
       {Pip("install --pre torch torchvision torchaudio nightly/cu121")},
       {Pip("install torch torchvision torchaudio cpu")} >>

cuda_try == [k \in 1..3 |-> Pr("Trying CUDA version: " \o cuda_versions[k])]
cuda_succ == [k \in 1..3 |-> {Pr("CUDA verification successful! " \o cuda_versions[k])}]
cuda_eff == [k \in 1..3 |-> {Pip("install --force-reinstall torch " \o cuda_versions[k])}]

ixf_try == [k \in 1..5 |-> Pr("--- Strategy: " \o ixf_strategies[k])]
ixf_succ == [k \in 1..5 |-> {Pr("xFormers installation successful!")}]
ixf_eff == [k \in 1..5 |-> {Pip("install " \o ixf_strategies[k])}]

(***************************************************************************)
(* The claims                                                              *)
(***************************************************************************)

NoPip(tr) == \A j \in 1..Len(tr) : tr[j].k # "pip"

\* C2: when the probe of a script answers that nothing is needed (xFormers
\* already imports with memory_efficient_attention in
\* install_xformers_python313; CUDA is already available in fix_pytorch_cuda;
\* the first check_cuda_compatibility() of setup_gpu_acceleration passes)
\* the run issues no pip uninstall and no pip install, at any point.
C2_NoPipWhenNotNeeded ==
    /\ script = "install_xformers_python313"
         /\ Occurs(trace, Pr("xFormers already working - no action needed"))
         => NoPip(trace)
    /\ script = "fix_pytorch_cuda"
         /\ Occurs(trace, Pr("CUDA is already working! No fix needed."))
         => NoPip(trace)
    /\ script = "setup_gpu_acceleration" /\ Len(trace) >= 2
         /\ trace[2] = Pr("CUDA operations working correctly")
         => NoPip(trace)

\* C2 witness: xFormers was found working and the run of
\* install_xformers_python313 ended without a pip command.
C2_Witness ==
    /\ script = "install_xformers_python313" /\ pc = "exit"
    /\ Occurs(trace, Pr("xFormers already working - no action needed"))
    /\ NoPip(trace)

\* The line that opens the closing summary of each script's main().
SummaryLine(s) ==
    CASE s = "fix_pytorch_installation" -> Pr("PYTORCH RECOVERY SUMMARY")
      [] s = "fix_pytorch_python313" -> Pr("Fix completed! Next steps:")
      [] s = "install_xformers_python313" -> Pr("INSTALLATION SUMMARY")
      [] s = "fix_pytorch_cuda" -> Pr("Next steps:")
      [] s = "setup_gpu_acceleration" -> Pr("GPU ACCELERATION SETUP SUMMARY")
      [] s = "fix_grey_images" -> Pr("GREY IMAGE FIX SUMMARY")
      [] s = "fix_pytorch_lightning_imports" -> Pr("PATCH SUMMARY")
      [] s = "fix_gradio_compatibility" -> Pr("GRADIO COMPATIBILITY FIX SUMMARY")
      [] s = "fix_package_conflicts" -> Pr("PACKAGE CONFLICTS FIX SUMMARY")
      [] s = "fix_triton_conflict" -> Pr("SUCCESS! Next steps:")
      [] s = "fix_final_gpu_issues" -> Pr("FINAL GPU OPTIMIZATION SUMMARY")
      [] s = "fix_blendmodes_final" -> Pr("BLENDMODES FIX SUMMARY")
      [] s = "install_core_deps" -> Pr("INSTALLATION SUMMARY")
      [] s = "quick_package_fix" -> Pr("Quick fix completed!")
      [] s = "fix_image_generation" -> Pr("IMAGE GENERATION FIX SUMMARY")

\* C3: every main() runs to completion and prints its summary on every
\* path: a run of fix_grey_images, fix_pytorch_lightning_imports or
\* fix_gradio_compatibility that has ended has printed its summary, also
\* when every recovery step failed.  Stated for the runs in which main()
\* returned (exit code 0), the least the claim asks.
C3_SummaryOnEveryPath ==
    script \in {"fix_grey_images", "fix_pytorch_lightning_imports",
                "fix_gradio_compatibility"} /\ pc = "exit" /\ exitcode = 0
    => Occurs(trace, SummaryLine(script))

\* Of a strategy sequence read off a trace: every strategy that was
\* announced and did not report success was followed by the next one.
NextAttempted(tr, try, succ) ==
    \A k \in 1..(Len(try) - 1) :
       Occurs(tr, try[k]) /\ (\A e \in succ[k] : ~Occurs(tr, e)) => Occurs(tr, try[k + 1])

\* C4: an exception raised by a recovery action's effect or verification is
\* caught and counted as that action's failure; it never leaves the action,
\* and the next action of the sequence is attempted.  So a run that has
\* ended has gone on after every strategy that did not verify
\* (install_pytorch_strategy_1..3, the CUDA versions of solution 1), and no
\* run ends on a traceback from inside a strategy.
C4_ExceptionsCaught ==
    pc = "exit" =>
       /\ script = "fix_pytorch_installation" =>
             NextAttempted(trace, fpi_try, fpi_succ)
       /\ script = "fix_pytorch_python313" =>
             NextAttempted(trace, cuda_try, cuda_succ)

\* The environment after the pip commands recorded in evs took effect on pk.
RECURSIVE Replay(_, _)
Replay(pk, evs) ==
    IF evs = <<>> THEN pk
    ELSE Replay(IF Head(evs).k = "effect"
                THEN [pk EXCEPT ![Head(evs).a] = Head(evs).b]
                ELSE pk,
                Tail(evs))

\* The events a step added to the trace.
NewEvents == SubSeq(trace', Len(trace) + 1, Len(trace'))

\* C5: package changes are never rolled back.  In every step of
\* fix_package_conflicts, fix_triton_conflict and install_xformers_python313
\* the installed packages after the step are the packages before it with
\* the effects of the step's pip commands applied, whether or not the
\* strategy of that step verified; so after a run without a verified
\* success the environment is the cumulative result of what was attempted.
C5_NoRollback ==
    [][ (script \in {"fix_package_conflicts", "fix_triton_conflict",
                     "install_xformers_python313"})
        => pkgs' = Replay(pkgs, NewEvents) ]_vars

\* C5 witness: a run of fix_triton_conflict in which every strategy failed
\* has ended, and the torch it started with is gone.
C5_Witness ==
    /\ script = "fix_triton_conflict" /\ pc = "exit"
    /\ Occurs(trace, Pr("All installation attempts failed"))
    /\ Occurs(trace, Did("torch", "absent"))
    /\ pkgs["torch"] = "absent"

\* Of a strategy list whose entries carry a name and a command: the lines
\* announcing its install strategies, and the line announcing its skip or
\* manual-fallback entry.
InstallTries(list, skip) ==
    { Pr("Trying: " \o list[k].name) : k \in { j \in 1..Len(list) : list[j].cmd # skip } }
SkipTry(list, skip) ==
    { Pr("Trying: " \o list[k].name) : k \in { j \in 1..Len(list) : list[j].cmd = skip } }

\* The skip entry of a list is reached only when every install strategy of
\* the list has been tried before it and none of them reported success.
SkipIsLastResort(tr, list, skip, successes) ==
    \A j \in 1..Len(tr) :
       tr[j] \in SkipTry(list, skip) =>
          /\ \A t \in InstallTries(list, skip) : \E q \in 1..(j - 1) : tr[q] = t
          /\ \A q \in 1..(j - 1) : tr[q] \notin successes

\* C6: a Skip or manual-fallback action is never invoked while an install
\* strategy of its list is untried, and never when one of them succeeded:
\* in fix_package_conflicts.fix_blendmodes_installation, in
\* fix_final_gpu_issues.try_xformers_alternatives and in
\* fix_blendmodes_final.install_compatible_blendmodes.
C6_SkipIsLastResort ==
    /\ script = "fix_package_conflicts" =>
          SkipIsLastResort(trace, blendmodes_strategies, "skip",
                           {Pr("blendmodes installed successfully")})
    /\ script = "fix_final_gpu_issues" =>
          SkipIsLastResort(trace, ffg_strategies, "skip",
                           {Pr("SUCCESS: Memory efficient attention available")})
    /\ script = "fix_blendmodes_final" =>
          SkipIsLastResort(trace, fbf_strategies, "manual_install",
                           { Pr("SUCCESS: " \o fbf_strategies[k].name \o " - blendmodes working")
                               : k \in 1..4 })

\* What shows in the trace that a strategy function of
\* fix_pytorch_installation ran.
fpi_strategy_ran(n) ==
    CASE n = "install_pytorch_strategy_1" -> fpi_eff[1]
      [] n = "install_pytorch_strategy_2" -> fpi_eff[2]
      [] n = "install_pytorch_strategy_3" -> fpi_eff[3]
      [] OTHER -> {Pr("Skipping automatic implementation")}

\* C7: "all strategies failed" is reported only after every strategy
\* defined for the concern was attempted, and every attempted strategy is
\* named as failed: when fix_pytorch_installation prints "All PyTorch
\* installation strategies failed", each of install_pytorch_strategy_1 ..
\* install_pytorch_strategy_4 has run, and each strategy main announced is
\* followed by its "Failed:" line.
C7_AllFailedAfterAllTried ==
    script = "fix_pytorch_installation"
       /\ Occurs(trace, Pr("All PyTorch installation strategies failed"))
    => /\ \A n \in fpi_defined_strategies :
             \E e \in fpi_strategy_ran(n) : Occurs(trace, e)
       /\ \A k \in 1..Len(fpi_strategies) :
             Occurs(trace, fpi_try[k]) => Occurs(trace, Pr("Failed: " \o fpi_strategies[k]))

\* The generated launcher and environment files.
LauncherFiles ==
    {"pytorch_recovery.bat", "webui_env.bat", "webui_env.sh", "webui_fallback.bat",
     "webui_gpu.bat", "webui_gpu_fast.bat", "webui_gpu_balanced.bat",
     "webui_gpu_lowvram.bat", "webui_vae_fixed.bat", "webui_gpu_optimized.bat",
     "webui_triton_fix.bat", "webui_gpu_rtx3080_final.bat"}

\* C8: the phases of a script come in the order probe, remediation, write
\* the launcher, print the summary: no pip command follows the write of a
\* launcher (remediation has finished when it is written) and no launcher is
\* written once the summary line has been printed.
C8_PhaseOrder ==
    \A j \in 1..Len(trace) :
       trace[j].k = "write" /\ trace[j].a \in LauncherFiles =>
          /\ \A q \in (j + 1)..Len(trace) : trace[q].k # "pip"
          /\ \A q \in 1..(j - 1) : trace[q] # SummaryLine(script)

\* The pip installs of a script's multi-package sequence, in the order of
\* the code.
InstallSequence(s) ==
    CASE s = "install_core_deps" ->
           [k \in 1..Len(core_deps) |-> Pip("install " \o core_deps[k] \o " --upgrade")]
      [] s = "quick_package_fix" ->
           [k \in 1..Len(qpf_packages) |-> Pip("install " \o qpf_packages[k].req)]
      [] s = "fix_package_conflicts" ->
           <<Pip("install numpy==1.26.4")>> \o
           [k \in 1..Len(essential_packages) |-> Pip("install " \o essential_packages[k])] \o
           <<Pip("install torchvision --index-url cu118")>>
      [] OTHER -> <<>>

\* C9: a step that fails does not stop the script, and in a multi-package
\* install or reinstall sequence a failed package never prevents the
\* remaining packages from being attempted: when a run of install_core_deps,
\* quick_package_fix or fix_package_conflicts has come to its end with every
\* failure caught, the install of every package of its sequence was run.
C9_FailedPackageNeverStopsTheRest ==
    pc = "exit" /\ exitcode = 0 =>
       \A k \in 1..Len(InstallSequence(script)) :
          Occurs(trace, InstallSequence(script)[k])

\* C10: the process exit code is 0 on every run of every script, whatever
\* failed in it: a recovery attempt, the writing of a generated file or the
\* import of a package the script needs.  Stated for the three scripts
\* whose module imports, file writing and __main__ block decide it.
C10_ExitCodeAlwaysZero ==
    script \in {"fix_image_generation", "fix_pytorch_python313",
                "install_xformers_python313"} /\ pc = "exit"
    => exitcode = 0

(* C11: what fix_grey_images.py writes to ui-config.json reads back as  *)
(* the dictionary it held.                                               *)

\* C11: whenever a run changes ui-config.json, the text written parses
\* to exactly the dictionary that was dumped (the keys the file held
\* before, each with the value and the type it had, and both Preferred
\* VAE keys), and a read of the two Preferred VAE keys, as
\* check_current_vae_config() does it, gives the name that was written for
\* both.
C11_UiConfigRoundTrip ==
    [][ (files'["ui-config.json"] # files["ui-config.json"]) =>
          /\ json_load(files'["ui-config.json"]) =
                {vae_settings(files["ui-config.json"], vae_name)}
          /\ preferred_vae(files'["ui-config.json"]) =
                [read |-> "ok", txt2img_vae |-> PyStr(vae_name),
                 img2img_vae |-> PyStr(vae_name)] ]_vars

\* The file was rewritten and carries a third key whose value is the
\* number 20, not a string.
C11_Witness ==
    /\ script = "fix_grey_images"
    /\ Occurs(trace, Wr("ui-config.json"))
    /\ json_load(files["ui-config.json"]) # {}
    /\ \E d \in json_load(files["ui-config.json"]) :
          /\ SettingKeys[3] \in DOMAIN d
          /\ d[SettingKeys[3]] = PyInt(20)

(***************************************************************************)
(* The launcher files and the functions that write them                    *)
(***************************************************************************)

\* str.startswith and the `in` test on strings.
StartsWith(s, p) == Len(s) >= Len(p) /\ SubSeq(s, 1, Len(p)) = p

Contains(s, t) ==
    \E k \in 1..(Len(s) - Len(t) + 1) : SubSeq(s, k, k + Len(t) - 1) = t

\* version.split('+')[0]
RECURSIVE BeforePlus(_, _)
BeforePlus(s, k) ==
    IF k > Len(s) THEN s
    ELSE IF SubSeq(s, k, k) = "+" THEN SubSeq(s, 1, k - 1)
         ELSE BeforePlus(s, k + 1)

\* What a launcher-writing function finds around it: the interpreter it
\* runs under, the platform, and torch.__version__ of the torch that is
\* installed ("absent": the import fails).
PythonVersions == { [major |-> 3, minor |-> 10], [major |-> 3, minor |-> 13] }
TorchVersions == {"absent", "2.5.1+cu121", "2.6.0+cu121", "2.7.0+cu121"}
Ambients == [python : PythonVersions, windows : BOOLEAN, torch : TorchVersions]

\* fix_triton_conflict.create_webui_config_without_triton(), lines 202-214.
ftc_torch_cmd(torch) ==
    LET torch_version == BeforePlus(torch, 1)
        cu121 == " --extra-index-url https://download.pytorch.org/whl/cu121"
    IN CASE torch = "absent" ->
              "pip install torch==2.5.1 torchvision==0.20.1" \o cu121
         [] StartsWith(torch_version, "2.5") ->
              "pip install torch==2.5.1 torchvision==0.20.1" \o cu121
         [] StartsWith(torch_version, "2.7") ->
              "pip install torch==2.7.0 torchvision==0.22.0" \o cu121
         [] OTHER -> "pip install torch torchvision" \o cu121

\* lines 216-223
ftc_webui_content(torch_cmd) ==
    "@echo off\n"
    \o "REM PyTorch Triton-Compatible Configuration\n"
    \o "set TORCH_COMMAND=" \o torch_cmd \o "\n"
    \o "set COMMANDLINE_ARGS=--skip-python-version-check --disable-safe-unpickle\n"
    \o "REM Disable xformers to avoid triton conflicts\n"
    \o "set XFORMERS_PACKAGE=none\n"
    \o "call webui.bat %*\n"

\* diagnose_environment.create_compatible_webui_config(), lines 136-165.
config_content(python_version) ==
    LET v == ToString(python_version.major) \o "." \o ToString(python_version.minor) IN
    "@echo off\n"
    \o "REM Compatible WebUI Configuration for Python " \o v \o "\n"
    \o "echo Starting WebUI with Python " \o v \o " compatibility...\n"
    \o "echo.\n\n"
    \o "REM Skip problematic package installations\n"
    \o "set COMMANDLINE_ARGS=--skip-python-version-check --skip-install\n\n"
    \o "REM Use existing PyTorch installation\n"
    \o "set TORCH_COMMAND=echo \"Using existing PyTorch installation\"\n\n"
    \o "REM Skip CLIP packages (compatibility issues)\n"
    \o "set CLIP_PACKAGE=echo \"Skipping CLIP (compatibility issues)\"\n"
    \o "set OPENCLIP_PACKAGE=echo \"Skipping open_clip (compatibility issues)\"\n\n"
    \o "REM Disable xformers if problematic\n"
    \o "set XFORMERS_PACKAGE=none\n\n"
    \o "REM Additional stability flags\n"
    \o "set COMMANDLINE_ARGS=%COMMANDLINE_ARGS% --no-half --precision full\n\n"
    \o "echo Configuration:\n"
    \o "echo - Python " \o v \o " compatibility mode\n"
    \o "echo - Skipping CLIP installation (compatibility issues)\n"
    \o "echo - Using existing PyTorch installation\n"
    \o "echo - Stability flags enabled\n"
    \o "echo.\n\n"
    \o "call webui.bat %*\n"

\* fix_pytorch_python313.create_environment_override(), lines 157-166.
torch_command(python_version) ==
    "pip install torch==" \o (IF python_version.minor >= 13 THEN "2.6.0" ELSE "2.1.2")
    \o " torchvision==" \o (IF python_version.minor >= 13 THEN "0.21.0" ELSE "0.16.2")
    \o " --extra-index-url https://download.pytorch.org/whl/cu121"

\* lines 170-174: the four writes to webui_env.bat
webui_env_bat(python_version) ==
    "@echo off\n"
    \o "set TORCH_COMMAND=" \o torch_command(python_version) \o "\n"
    \o "set COMMANDLINE_ARGS=--skip-python-version-check\n"
    \o "call webui.bat %*\n"

\* lines 179-183: the four writes to webui_env.sh
webui_env_sh(python_version) ==
    "#!/bin/bash\n"
    \o "export TORCH_COMMAND=\"" \o torch_command(python_version) \o "\"\n"
    \o "export COMMANDLINE_ARGS=\"--skip-python-version-check\"\n"
    \o "./webui.sh \"$@\"\n"

\* setup_gpu_acceleration.create_performance_configs(), lines 213-226:
\* configs, in the order of the dictionary.
configs ==
    << [filename |-> "webui_gpu_fast.bat",
        description |-> "Maximum speed (requires 8GB+ VRAM)",
        flags |-> "--precision autocast --opt-split-attention --no-half-vae --opt-channelslast"],
       [filename |-> "webui_gpu_balanced.bat",
        description |-> "Balanced speed/memory (4-8GB VRAM)",
        flags |-> "--precision autocast --opt-split-attention --opt-sub-quad-attention --medvram"],
       [filename |-> "webui_gpu_lowvram.bat",
        description |-> "Low VRAM mode (2-4GB VRAM)",
        flags |-> "--precision autocast --lowvram --opt-split-attention --opt-sub-quad-attention"] >>

\* lines 228-257 and 262: base_config.format(**config)
base_config(config) ==
    "@echo off\n"
    \o "REM " \o config.description \o "\n"
    \o "echo Starting WebUI with GPU acceleration - " \o config.description \o "...\n"
    \o "echo.\n\n"
    \o "REM Install dependencies (same as GPU config)\n"
    \o "echo Installing core dependencies...\n"
    \o "pip install packaging setuptools wheel --upgrade --quiet\n"
    \o "pip install \"pytorch_lightning>=2.0.0,<3.0.0\" torchmetrics --upgrade --quiet\n"
    \o "pip install omegaconf safetensors accelerate --upgrade --quiet\n"
    \o "pip install diskcache jsonmerge inflection --upgrade --quiet\n"
    \o "pip install \"gradio==3.41.2\" \"pydantic>=1.10.0,<2.0.0\" fastapi uvicorn --upgrade --quiet\n"
    \o "pip install tomesd einops kornia --upgrade --quiet\n"
    \o "pip install \"numpy>=2.0.2\" --upgrade --quiet\n"
    \o "echo Core dependencies installed.\n"
    \o "echo.\n\n"
    \o "REM GPU optimization environment variables\n"
    \o "set PYTORCH_CUDA_ALLOC_CONF=max_split_size_mb:512\n"
    \o "set CUDA_LAUNCH_BLOCKING=0\n\n"
    \o "REM Configuration flags\n"
    \o "set COMMANDLINE_ARGS=--skip-python-version-check --skip-install "
    \o config.flags \o "\n\n"
    \o "REM Use existing PyTorch installation\n"
    \o "set TORCH_COMMAND=echo \"Using existing PyTorch installation\"\n\n"
    \o "echo GPU Configuration: " \o config.description \o "\n"
    \o "echo.\n\n"
    \o "call webui.bat %*\n"

\* The command-line flags a text carries: its words that begin with "--".
FlagStarts(s) ==
    { k \in 1..(Len(s) - 1) :
        /\ SubSeq(s, k, k + 1) = "--"
        /\ (k = 1 \/ SubSeq(s, k - 1, k - 1) \in {" ", "="}) }

FlagEnds(s, k) ==
    CHOOSE e \in k..Len(s) :
        /\ e = Len(s) \/ SubSeq(s, e + 1, e + 1) \in {" ", "\n"}
        /\ \A j \in k..(e - 1) : SubSeq(s, j + 1, j + 1) \notin {" ", "\n"}

Flags(s) == { SubSeq(s, k, FlagEnds(s, k)) : k \in FlagStarts(s) }

\* str.find from position k: where t first occurs in s at or after k, 0
\* when it does not.
Find(s, t, k) ==
    LET at == { j \in k..(Len(s) - Len(t) + 1) : SubSeq(s, j, j + Len(t) - 1) = t }
    IN IF at = {} THEN 0 ELSE CHOOSE j \in at : \A j2 \in at : j <= j2

\* str.replace(old, new): every occurrence, from left to right, the search
\* going on behind what was just replaced.
RECURSIVE ReplaceFrom(_, _, _, _)
ReplaceFrom(s, old, new, k) ==
    LET j == Find(s, old, k)
    IN IF j = 0 THEN SubSeq(s, k, Len(s))
       ELSE SubSeq(s, k, j - 1) \o new \o ReplaceFrom(s, old, new, j + Len(old))

str_replace(s, old, new) == ReplaceFrom(s, old, new, 1)

\* fix_sgm_openclip.update_webui_config_for_openclip(), lines 266-272.
openclip_old_line == "pip install pytorch_lightning torchmetrics --upgrade --quiet"

openclip_new_line ==
    "pip install pytorch_lightning torchmetrics --upgrade --quiet\n"
    \o "echo Attempting open_clip installation...\n"
    \o "pip install open-clip-torch --no-deps --quiet || echo \"open_clip installation failed - using mock version\" "

\* A webui_compatible.bat that installs its dependencies itself, as
\* update_webui_config_for_openclip() looks for it.
compatible_with_install ==
    "@echo off\n"
    \o "pip install pytorch_lightning torchmetrics --upgrade --quiet\n"
    \o "set COMMANDLINE_ARGS=--skip-python-version-check --skip-install\n"
    \o "call webui.bat %*\n"

\* verify_config.show_webui_compatible_content(), lines 91-96.
required_flags ==
    <<"--skip-torch-cuda-test", "--skip-python-version-check", "--skip-install",
      "--use-cpu all">>

\* Reading a file and testing whether it exists, as events of the trace.
Rd(f) == [k |-> "read", a |-> f]
Ex(f) == [k |-> "exists", a |-> f]

\* with open(name, "w") as f: f.write(text) appending to what the file held.
write_file_append(old, text) == IF old = "absent" THEN text ELSE old \o text

\* with open(name, "w") as f: f.write(text): the file is truncated when it
\* is opened and holds the text afterwards.
write_file(old, text) == text

\* The launcher-writing and launcher-reading functions called one after the
\* other in one directory, in any order, the interpreter and the installed
\* torch changing in between.  script is the script whose function was
\* called last, i the number of calls so far and trace what the calls did.
MaxCalls == 2

LauncherNames ==
    {"webui_triton_fix.bat", "webui_compatible.bat", "webui_env.bat", "webui_env.sh",
     "webui_gpu_rtx3080_final.bat"}
    \cup { configs[k].filename : k \in 1..Len(configs) }

LaunchersInit ==
    /\ script = "none"
    /\ host \in Ambients
    /\ pc = "launchers"
    /\ i = 0
    /\ loc = NoLocals
    /\ pkgs = Absent
    /\ sysmodules = [m \in Packages |-> "none"]
    /\ files \in { [NoFiles EXCEPT !["webui_compatible.bat"] = c] :
                     c \in {"absent", compatible_with_install} }
    /\ trace = <<>>
    /\ exitcode = -1

\* One call: the files and the events it leaves.
LauncherCall(name, f2, ev) ==
    /\ pc = "launchers" /\ i < MaxCalls
    /\ script' = name
    /\ i' = i + 1
    /\ files' = f2
    /\ trace' = trace \o ev
    /\ UNCHANGED <<host, pc, loc, pkgs, sysmodules, exitcode>>

\* Another interpreter, platform or torch between two calls.
change_ambient ==
    /\ pc = "launchers" /\ i < MaxCalls
    /\ host' \in Ambients \ {host}
    /\ UNCHANGED <<script, pc, i, loc, pkgs, sysmodules, files, trace, exitcode>>

\* create_performance_configs(), lines 259-268: the loop, one try per file.
\* W is the set of files whose write went through.
performance_files(W) ==
    [f \in FileNames |->
       IF f \in W
       THEN LET k == CHOOSE k \in 1..Len(configs) : configs[k].filename = f
            IN write_file(files[f], base_config(configs[k]))
       ELSE files[f]]

RECURSIVE performance_events(_, _)
performance_events(W, k) ==
    IF k > Len(configs) THEN <<>>
    ELSE (IF configs[k].filename \in W
          THEN <<Wr(configs[k].filename), Pr("Created " \o configs[k].filename)>>
          ELSE <<Pr("Error creating " \o configs[k].filename)>>)
         \o performance_events(W, k + 1)

\* fix_triton_conflict.create_webui_config_without_triton(): the write is
\* guarded.
call_create_webui_config_without_triton ==
    \E w \in {"ok", "fail"} :
       LET f == "webui_triton_fix.bat" IN
       IF w = "ok"
       THEN LauncherCall("fix_triton_conflict",
                [files EXCEPT ![f] = write_file(@, ftc_webui_content(ftc_torch_cmd(host.torch)))],
                <<Wr(f), Pr("Created webui_triton_fix.bat")>>)
       ELSE LauncherCall("fix_triton_conflict", files,
                <<Pr("Could not create config file")>>)

\* diagnose_environment.create_compatible_webui_config(): the write is
\* guarded.
call_create_compatible_webui_config ==
    \E w \in {"ok", "fail"} :
       LET f == "webui_compatible.bat" IN
       IF w = "ok"
       THEN LauncherCall("diagnose_environment",
                [files EXCEPT ![f] = write_file(@, config_content(host.python))],
                <<Wr(f), Pr("Created webui_compatible.bat")>>)
       ELSE LauncherCall("diagnose_environment", files, <<Pr("Could not create config")>>)

\* setup_gpu_acceleration.create_performance_configs(): one try per file.
call_create_performance_configs ==
    \E W \in SUBSET { configs[k].filename : k \in 1..Len(configs) } :
       LauncherCall("setup_gpu_acceleration",
                    performance_files(W), performance_events(W, 1))

\* fix_pytorch_cuda.update_webui_config(): the write is guarded.
call_update_webui_config ==
    \E w \in {"ok", "fail"} :
       LET f == "webui_env.bat" IN
       IF w = "ok"
       THEN LauncherCall("fix_pytorch_cuda",
                [files EXCEPT ![f] = write_file(@, fpc_webui_content)],
                <<Wr(f), Pr("Updated webui_env.bat with CUDA configuration")>>)
       ELSE LauncherCall("fix_pytorch_cuda", files, <<Pr("Could not update webui_env.bat")>>)

\* fix_pytorch_python313.create_environment_override(): nothing is caught.
call_create_environment_override ==
    \E w \in {"ok", "fail"} :
       LET f == IF host.windows THEN "webui_env.bat" ELSE "webui_env.sh"
           text == IF host.windows THEN webui_env_bat(host.python)
                   ELSE webui_env_sh(host.python)
       IN IF w = "ok"
          THEN LauncherCall("fix_pytorch_python313",
                   [files EXCEPT ![f] = write_file(@, text)],
                   <<Wr(f), Pr("Created " \o f \o " with environment overrides")>>)
          ELSE LauncherCall("fix_pytorch_python313", files, <<Traceback>>)

\* fix_sgm_openclip.update_webui_config_for_openclip(): the launcher is
\* tested for, read and, where it holds the line looked for, rewritten.
call_update_webui_config_for_openclip ==
    LET f == "webui_compatible.bat"
        content == files[f]
    IN IF content = "absent"
       THEN LauncherCall("fix_sgm_openclip", files,
                <<Ex(f), Pr("Config file not found: webui_compatible.bat")>>)
       ELSE IF ~Contains(content, "pip install pytorch_lightning torchmetrics")
       THEN LauncherCall("fix_sgm_openclip", files, <<Ex(f), Rd(f)>>)
       ELSE \E w \in {"ok", "fail"} :
               IF w = "ok"
               THEN LauncherCall("fix_sgm_openclip",
                        [files EXCEPT ![f] =
                            write_file(@, str_replace(content, openclip_old_line,
                                                      openclip_new_line))],
                        <<Ex(f), Rd(f), Wr(f), Pr("Updated webui_compatible.bat")>>)
               ELSE LauncherCall("fix_sgm_openclip", files,
                        <<Ex(f), Rd(f), Pr("Error updating config")>>)

\* verify_config.show_webui_compatible_content(): the launcher is read and
\* searched for four flags.
call_show_webui_compatible_content ==
    LET f == "webui_compatible.bat"
        content == files[f]
    IN IF content = "absent"
       THEN LauncherCall("verify_config", files, <<Pr("webui_compatible.bat not found")>>)
       ELSE LauncherCall("verify_config", files,
                <<Rd(f), Pr(content)>> \o
                [k \in 1..Len(required_flags) |->
                   Pr(required_flags[k] \o
                      (IF Contains(content, required_flags[k]) THEN " present"
                       ELSE " missing"))])

\* fix_final_gpu_issues.verify_final_setup(), lines 332-338: the test for
\* the launcher.
call_verify_final_setup ==
    LET f == "webui_gpu_rtx3080_final.bat" IN
    LauncherCall("fix_final_gpu_issues", files,
        <<Ex(f), Pr(IF files[f] # "absent" THEN "[OK] Launch script: " \o f
                    ELSE "[ERROR] Launch script not created")>>)

LaunchersNext ==
    \/ change_ambient
    \/ call_create_webui_config_without_triton
    \/ call_create_compatible_webui_config
    \/ call_create_performance_configs
    \/ call_update_webui_config
    \/ call_create_environment_override
    \/ call_update_webui_config_for_openclip
    \/ call_show_webui_compatible_content
    \/ call_verify_final_setup

SpecLaunchers == LaunchersInit /\ [][LaunchersNext]_vars

(* C12: what a launcher-writing function writes, called twice.            *)

\* The texts a launcher-writing function can leave in the file f.
LauncherOutputs(s, f) ==
    CASE s = "fix_triton_conflict" /\ f = "webui_triton_fix.bat" ->
           { ftc_webui_content(ftc_torch_cmd(t)) : t \in TorchVersions }
      [] s = "diagnose_environment" /\ f = "webui_compatible.bat" ->
           { config_content(p) : p \in PythonVersions }
      [] s = "setup_gpu_acceleration" ->
           { base_config(configs[k]) : k \in { k \in 1..Len(configs) : configs[k].filename = f } }
      [] OTHER -> {}

\* C12: when create_webui_config_without_triton(),
\* create_compatible_webui_config() or create_performance_configs() writes a
\* file that holds what an earlier call of the same function wrote, the
\* file holds the same text afterwards, byte for byte, whatever torch is
\* installed and whatever interpreter runs the call.
C12_SameInputSameLauncher ==
    [][ \A f \in LauncherNames :
          (Occurs(NewEvents, Wr(f)) /\ files[f] \in LauncherOutputs(script', f))
             => files'[f] = files[f] ]_vars

(* C13: a launcher that is written again holds the new text only.         *)

\* The text the function of script s renders for the file f under the
\* ambient h.
Rendered(s, f, h) ==
    CASE s = "fix_triton_conflict" -> ftc_webui_content(ftc_torch_cmd(h.torch))
      [] s = "diagnose_environment" -> config_content(h.python)
      [] s = "setup_gpu_acceleration" ->
           base_config(configs[CHOOSE k \in 1..Len(configs) : configs[k].filename = f])
      [] s = "fix_pytorch_cuda" -> fpc_webui_content
      [] OTHER -> IF f = "webui_env.bat" THEN webui_env_bat(h.python)
                  ELSE webui_env_sh(h.python)

\* C13: after a launcher-writing function wrote a file, the file holds
\* exactly the text the function rendered, whatever it held before; so
\* webui_env.bat, which update_webui_config() of fix_pytorch_cuda and
\* create_environment_override() of fix_pytorch_python313 both write, holds
\* the text of the one that wrote last.
C13_LastWriterWins ==
    [][ \A f \in LauncherNames :
          (Occurs(NewEvents, Wr(f)) /\ script' # "fix_sgm_openclip")
             => files'[f] = Rendered(script', f, host) ]_vars

\* create_environment_override() wrote webui_env.bat under Python 3.10,
\* then update_webui_config() wrote it again.
C13_Witness ==
    /\ pc = "launchers" /\ i = 2
    /\ script = "fix_pytorch_cuda"
    /\ host.python.minor = 10
    /\ trace = <<Wr("webui_env.bat"), Pr("Created webui_env.bat with environment overrides"),
                 Wr("webui_env.bat"), Pr("Updated webui_env.bat with CUDA configuration")>>
    /\ files["webui_env.bat"] = fpc_webui_content
    /\ files["webui_env.bat"] # webui_env_bat(host.python)

(* C14: the flags of a templated launcher.                                *)

\* C14: every performance launcher that was written contains the flag
\* text of its entry of configs, and the command-line flags it carries are
\* those of that entry and no others.
C14_ExactlyTheMappedFlags ==
    pc = "launchers" =>
       \A k \in 1..Len(configs) :
          LET text == files[configs[k].filename] IN
          text # "absent" =>
             /\ Contains(text, configs[k].flags)
             /\ Flags(text) = Flags(configs[k].flags)

(* C15: nothing but the user touches a launcher once it is written.       *)

\* C15: no function reads a launcher file or tests whether it exists.
C15_LaunchersNeverConsumed ==
    pc = "launchers" =>
       \A j \in 1..Len(trace) :
          trace[j].k \in {"read", "exists"} => trace[j].a \notin LauncherNames

(***************************************************************************)
(* The patch functions and the files they rewrite                          *)
(***************************************************************************)

\* Where the patch functions are called, a file holds the bytes that are
\* on the disk, the line ends among them: "\n", or "\r\n" as on Windows.

\* open(path, "r", encoding="utf-8").read(): every "\r\n" and every "\r" of
\* the file comes out as "\n" (newline=None, the default).
read_text(bytes) == str_replace(str_replace(bytes, "\r\n", "\n"), "\r", "\n")

\* open(path, "w", encoding="utf-8").write(text): every "\n" of the text is
\* written as os.linesep, "\r\n" on Windows (newline=None, the default).
write_text(text, windows) == IF windows THEN str_replace(text, "\n", "\r\n") ELSE text

\* content.replace(old, new) for each patch of the list whose old text is in
\* the content, in the order of the list.
RECURSIVE apply_patches(_, _, _)
apply_patches(content, patches, k) ==
    IF k > Len(patches) THEN content
    ELSE apply_patches(IF Contains(content, patches[k].old)
                       THEN str_replace(content, patches[k].old, patches[k].new)
                       ELSE content,
                       patches, k + 1)

\* fix_sgm_openclip.patch_sgm_imports(), lines 217-232 (the warning sign of
\* the print left out).
sgm_patches ==
    << [old |-> "import open_clip",
        new |-> "try:\n"
                \o "    import open_clip\n"
                \o "    OPENCLIP_AVAILABLE = True\n"
                \o "except ImportError:\n"
                \o "    print(\"open_clip not available - CLIP functionality will be limited\")\n"
                \o "    OPENCLIP_AVAILABLE = False\n"
                \o "    # Create mock open_clip for compatibility\n"
                \o "    class MockOpenCLIP:\n"
                \o "        @staticmethod\n"
                \o "        def create_model(*args, **kwargs):\n"
                \o "            raise ImportError(\"open_clip not available\")\n"
                \o "        @staticmethod\n"
                \o "        def get_tokenizer(*args, **kwargs):\n"
                \o "            raise ImportError(\"open_clip not available\")\n"
                \o "    open_clip = MockOpenCLIP()"] >>

\* fix_build_tools.modify_webui_packages(), lines 141-142.
old_openclip ==
    "openclip_package = os.environ.get('OPENCLIP_PACKAGE', \"https://github.com/mlfoundations/open_clip/archive/bb6e834e9c70d9c27d0dc3ecedeebeaeb1ffad6b.zip\")"

new_openclip ==
    "openclip_package = os.environ.get('OPENCLIP_PACKAGE', \"open-clip-torch==2.24.0\")"

\* fix_no_compilation.modify_webui_for_no_compilation(), lines 175-183.
modifications ==
    << [old |-> "if not is_installed(\"clip\"):",
        new |-> "if False and not is_installed(\"clip\"):"],
       [old |-> "if not is_installed(\"open_clip\"):",
        new |-> "if False and not is_installed(\"open_clip\"):"],
       [old |-> new_openclip,
        new |-> "openclip_package = os.environ.get('OPENCLIP_PACKAGE', \"transformers\")"] >>

\* fix_pytorch_lightning_imports.patch_pytorch_lightning_imports(), lines
\* 78-120.
pl_patches ==
    << [old |-> "from pytorch_lightning.utilities.distributed import rank_zero_only",
        new |-> "try:\n"
                \o "    from pytorch_lightning.utilities.distributed import rank_zero_only\n"
                \o "except ImportError:\n"
                \o "    # PyTorch Lightning 2.x moved this to fabric.utilities\n"
                \o "    try:\n"
                \o "        from lightning.fabric.utilities.distributed import rank_zero_only\n"
                \o "    except ImportError:\n"
                \o "        # Fallback: create a simple rank_zero_only decorator\n"
                \o "        def rank_zero_only(func):\n"
                \o "            \"\"\"Simple fallback for rank_zero_only decorator\"\"\"\n"
                \o "            return func"],
       [old |-> "from pytorch_lightning.utilities.rank_zero import rank_zero_warn",
        new |-> "try:\n"
                \o "    from pytorch_lightning.utilities.rank_zero import rank_zero_warn\n"
                \o "except ImportError:\n"
                \o "    # PyTorch Lightning 2.x moved this\n"
                \o "    try:\n"
                \o "        from lightning.fabric.utilities.rank_zero import rank_zero_warn\n"
                \o "    except ImportError:\n"
                \o "        # Fallback: create a simple rank_zero_warn function\n"
                \o "        def rank_zero_warn(message):\n"
                \o "            \"\"\"Simple fallback for rank_zero_warn\"\"\"\n"
                \o "            print(f\"WARNING: {message}\")"],
       [old |-> "from pytorch_lightning.utilities import rank_zero_only",
        new |-> "try:\n"
                \o "    from pytorch_lightning.utilities import rank_zero_only\n"
                \o "except ImportError:\n"
                \o "    # PyTorch Lightning 2.x compatibility\n"
                \o "    try:\n"
                \o "        from lightning.fabric.utilities.distributed import rank_zero_only\n"
                \o "    except ImportError:\n"
                \o "        def rank_zero_only(func):\n"
                \o "            return func"] >>

sgm_encoder_file == "repositories/generative-models/sgm/modules/encoders/modules.py"
launch_utils_path == "modules/launch_utils.py"

\* What the files that get patched hold, as text.
sgm_encoder_texts ==
    {"import torch\nimport open_clip\nfrom einops import rearrange\n",
     "import torch\nfrom einops import rearrange\n"}

launch_utils_texts ==
    {"def prepare_environment():\n    " \o old_openclip \o "\n"
        \o "    if not is_installed(\"clip\"):\n        run_pip(clip_package)\n",
     "def prepare_environment():\n    " \o new_openclip \o "\n"
        \o "    if not is_installed(\"clip\"):\n        run_pip(clip_package)\n",
     "def prepare_environment():\n    run_pip(requirements_file)\n"}

sd_models_texts ==
    {"import torch\nfrom pytorch_lightning.utilities.distributed import rank_zero_only\n",
     "import torch\nimport safetensors.torch\n"}

\* A text as a file with Unix or with Windows line ends.
FilesOf(texts) ==
    {"absent"} \cup texts \cup { str_replace(t, "\n", "\r\n") : t \in texts }

\* A patch function can fail before it wrote anything (the backup cannot be
\* opened) or after the backup (the target cannot be opened for writing).
PatchOutcomes == {"ok", "no_backup", "no_write"}

\* The files after one call of a patch function: the content is read, the
\* backup is written from it, the patches are applied and the target is
\* written (by patch_pytorch_lightning_imports only when a patch applied).
patched_files(f, backup, patches, write_unpatched, w) ==
    LET content == read_text(files[f])
        new == apply_patches(content, patches, 1)
    IN CASE w = "no_backup" -> files
         [] w = "no_write" -> [files EXCEPT ![backup] = write_text(content, host.windows)]
         [] OTHER ->
              [files EXCEPT ![backup] = write_text(content, host.windows),
                            ![f] = IF new # content \/ write_unpatched
                                   THEN write_text(new, host.windows) ELSE @]

patched_events(f, backup, patches, write_unpatched, w, done, failed) ==
    LET content == read_text(files[f])
        new == apply_patches(content, patches, 1)
    IN CASE w = "no_backup" -> <<Rd(f), Pr(failed)>>
         [] w = "no_write" /\ (new # content \/ write_unpatched) ->
              <<Rd(f), Wr(backup), Pr(failed)>>
         [] new # content \/ write_unpatched -> <<Rd(f), Wr(backup), Wr(f), Pr(done)>>
         [] OTHER -> <<Rd(f), Wr(backup), Pr("No patches needed")>>

\* The patch functions called one after the other in one directory, in any
\* order.  script is the script whose function was called last, i the
\* number of calls so far and trace what the calls did.
PatchesInit ==
    /\ script = "none"
    /\ host \in [python : {[major |-> 3, minor |-> 13]}, windows : BOOLEAN,
                 torch : {"absent"}]
    /\ pc = "patches"
    /\ i = 0
    /\ loc = NoLocals
    /\ pkgs = Absent
    /\ sysmodules = [m \in Packages |-> "none"]
    /\ files \in { [NoFiles EXCEPT ![sgm_encoder_file] = s, ![launch_utils_path] = l,
                                   !["modules/sd_models.py"] = m] :
                     s \in FilesOf(sgm_encoder_texts), l \in FilesOf(launch_utils_texts),
                     m \in FilesOf(sd_models_texts) }
    /\ trace = <<>>
    /\ exitcode = -1

PatchCall(name, f2, ev) ==
    /\ pc = "patches" /\ i < MaxCalls
    /\ script' = name
    /\ i' = i + 1
    /\ files' = f2
    /\ trace' = trace \o ev
    /\ UNCHANGED <<host, pc, loc, pkgs, sysmodules, exitcode>>

\* fix_sgm_openclip.patch_sgm_imports(): the target is written whether or
\* not the import was found.
call_patch_sgm_imports ==
    LET f == sgm_encoder_file IN
    IF files[f] = "absent"
    THEN PatchCall("fix_sgm_openclip", files, <<Ex(f), Pr("SGM encoder file not found")>>)
    ELSE \E w \in PatchOutcomes :
            PatchCall("fix_sgm_openclip",
                patched_files(f, f \o ".backup", sgm_patches, TRUE, w),
                <<Ex(f)>> \o patched_events(f, f \o ".backup", sgm_patches, TRUE, w,
                                            "Patched " \o f, "Error patching SGM file"))

\* fix_build_tools.modify_webui_packages(): the target is written whether
\* or not the line was found.
call_modify_webui_packages ==
    LET f == launch_utils_path
        patches == << [old |-> old_openclip, new |-> new_openclip] >>
    IN IF files[f] = "absent"
       THEN PatchCall("fix_build_tools", files, <<Ex(f), Pr(f \o " not found")>>)
       ELSE \E w \in PatchOutcomes :
               PatchCall("fix_build_tools",
                   patched_files(f, f \o ".backup", patches, TRUE, w),
                   <<Ex(f)>> \o patched_events(f, f \o ".backup", patches, TRUE, w,
                                               "Modified " \o f, "Error modifying " \o f))

\* fix_no_compilation.modify_webui_for_no_compilation(): the target is
\* written whether or not a line was found.
call_modify_webui_for_no_compilation ==
    LET f == launch_utils_path IN
    IF files[f] = "absent"
    THEN PatchCall("fix_no_compilation", files, <<Ex(f), Pr(f \o " not found")>>)
    ELSE \E w \in PatchOutcomes :
            PatchCall("fix_no_compilation",
                patched_files(f, f \o ".no_compile_backup", modifications, TRUE, w),
                <<Ex(f)>> \o patched_events(f, f \o ".no_compile_backup", modifications,
                                            TRUE, w, "Modified " \o f,
                                            "Error modifying " \o f))

\* fix_pytorch_lightning_imports.patch_pytorch_lightning_imports(file_path)
\* for modules/sd_models.py: a file that is not there makes the read raise,
\* which is caught; the target is written only when a patch applied.
call_patch_pytorch_lightning_imports ==
    LET f == "modules/sd_models.py" IN
    IF files[f] = "absent"
    THEN PatchCall("fix_pytorch_lightning_imports", files, <<Pr("Error patching " \o f)>>)
    ELSE \E w \in PatchOutcomes :
            PatchCall("fix_pytorch_lightning_imports",
                patched_files(f, f \o ".pl_backup", pl_patches, FALSE, w),
                patched_events(f, f \o ".pl_backup", pl_patches, FALSE, w,
                               "Successfully patched " \o f, "Error patching " \o f))

PatchesNext ==
    \/ call_patch_sgm_imports
    \/ call_modify_webui_packages
    \/ call_modify_webui_for_no_compilation
    \/ call_patch_pytorch_lightning_imports

SpecPatches == PatchesInit /\ [][PatchesNext]_vars

(* C16: a patch touches the target only where its search text stands.     *)

\* The file a patch function rewrites and the patches it applies.
PatchTarget(s) ==
    CASE s = "fix_sgm_openclip" -> sgm_encoder_file
      [] s = "fix_pytorch_lightning_imports" -> "modules/sd_models.py"
      [] OTHER -> launch_utils_path

PatchesOf(s) ==
    CASE s = "fix_sgm_openclip" -> sgm_patches
      [] s = "fix_pytorch_lightning_imports" -> pl_patches
      [] s = "fix_build_tools" -> << [old |-> old_openclip, new |-> new_openclip] >>
      [] OTHER -> modifications

\* A file with every search text (every replacement text, as it is written
\* on this platform) taken out.
RECURSIVE WithoutOld(_, _, _)
WithoutOld(s, patches, k) ==
    IF k > Len(patches) THEN s
    ELSE WithoutOld(str_replace(s, patches[k].old, ""), patches, k + 1)

RECURSIVE WithoutNew(_, _, _)
WithoutNew(s, patches, k) ==
    IF k = 0 THEN s
    ELSE WithoutNew(str_replace(s, write_text(patches[k].new, host.windows), ""),
                    patches, k - 1)

\* C16: a call of patch_sgm_imports(), modify_webui_packages() or
\* patch_pytorch_lightning_imports() leaves its target as it was when none
\* of its search texts is in it, and otherwise changes it only where a
\* search text stood: what is around the replacements is what was around
\* the search texts.
C16_PatchOnlyWhereFound ==
    [][ (pc = "patches" /\ i' = i + 1
         /\ script' \in {"fix_sgm_openclip", "fix_build_tools",
                         "fix_pytorch_lightning_imports"}) =>
          LET t == PatchTarget(script')
              P == PatchesOf(script')
          IN /\ (\A k \in 1..Len(P) : ~Contains(files[t], P[k].old))
                    => files'[t] = files[t]
             /\ files'[t] # files[t]
                    => WithoutNew(files'[t], P, Len(P)) = WithoutOld(files[t], P, 1) ]_vars

(* C19: a backup, once made, keeps the content from before the first      *)
(* patch.                                                                  *)

BackupFiles ==
    {"modules/sd_models.py.pl_backup", sgm_encoder_file \o ".backup",
     launch_utils_path \o ".backup", launch_utils_path \o ".no_compile_backup"}

\* C19: however often the patch functions are called, a backup file that
\* exists is never written with another content.
C19_BackupKeepsFirstContent ==
    [][ pc = "patches" =>
          \A b \in BackupFiles : files[b] # "absent" => files'[b] = files[b] ]_vars

(* C20: patching twice is patching once.                                  *)

\* The call that ended the trace ran to its end.
Completed(tr, s) ==
    /\ tr # <<>>
    /\ tr[Len(tr)] \in {Pr("Patched " \o PatchTarget(s)),
                        Pr("Successfully patched " \o PatchTarget(s)),
                        Pr("No patches needed")}

\* C20: when patch_sgm_imports() or patch_pytorch_lightning_imports() has
\* run to its end and is called again and runs to its end again, the
\* second call leaves the target as the first call left it.
C20_PatchIdempotent ==
    [][ (pc = "patches" /\ i' = i + 1 /\ script' = script
         /\ script \in {"fix_sgm_openclip", "fix_pytorch_lightning_imports"}
         /\ Completed(trace, script) /\ Completed(trace', script))
          => files'[PatchTarget(script)] = files[PatchTarget(script)] ]_vars

(* C18: a backup holds what the target held before the patch.             *)

BackupPairs ==
    { [target |-> "modules/processing.py", backup |-> "modules/processing.py.image_gen_backup"],
      [target |-> "modules/images.py", backup |-> "modules/images.py.cpu_fix_backup"],
      [target |-> "modules/processing.py", backup |-> "modules/processing.py.blendmodes_backup"],
      [target |-> "modules/gradio_extensons.py",
       backup |-> "modules/gradio_extensons.py.gradio_backup"],
      [target |-> "modules/sd_models.py", backup |-> "modules/sd_models.py.pl_backup"] }

\* C18: whenever a step of a run writes a backup file, the backup holds
\* afterwards what the patched file held before the step.
C18_BackupHoldsOriginal ==
    [][ \A p \in BackupPairs :
          files'[p.backup] # files[p.backup] => files'[p.backup] = files[p.target] ]_vars

(***************************************************************************)
(* The child processes of a script                                         *)
(***************************************************************************)

\* A script's pip commands as the child processes they are: subprocess.run
\* starts the child, waits until it has terminated and returns then.  The
\* trace holds a "start" when a child is started and an "ended" when it
\* terminates; a child is named by the place of its start in the trace.
Start(cmd) == [k |-> "start", a |-> cmd]
Ended(cmd, pid, rc) == [k |-> "ended", a |-> cmd, pid |-> pid, rc |-> rc]

Running(tr) ==
    { j \in 1..Len(tr) :
        /\ tr[j].k = "start"
        /\ ~\E m \in (j + 1)..Len(tr) : tr[m].k = "ended" /\ tr[m].pid = j }

\* The commands in the order the code reaches them, with their check=.
\* install_xformers_strategies(), lines 92-106: per strategy the uninstall
\* and the install; install_pytorch_strategy_2(), lines 107-123: cmd_cpu
\* and cmd_cuda.
ProcCommands(s) ==
    IF s = "install_xformers_python313"
    THEN [n \in 1..(2 * Len(ixf_strategies)) |->
            IF n % 2 = 1 THEN [cmd |-> "uninstall xformers -y", check |-> FALSE]
            ELSE [cmd |-> "install " \o ixf_strategies[n \div 2], check |-> TRUE]]
    ELSE << [cmd |-> "install torch torchvision torchaudio", check |-> TRUE],
            [cmd |-> "install torch torchvision torchaudio --upgrade --index-url cu118",
             check |-> TRUE] >>

\* A subprocess.run that returns without waiting for the child.
returned_nowait(tr) == TRUE

\* subprocess.run returns when the child it started has terminated.
returned(tr) == Running(tr) = {}

\* The exit code subprocess.run saw: that of the child that ended last.
LastRc(tr) ==
    LET ends == { j \in 1..Len(tr) : tr[j].k = "ended" }
    IN IF ends = {} THEN 0
       ELSE tr[CHOOSE j \in ends : \A j2 \in ends : j2 <= j].rc

ProcsInit ==
    /\ script \in {"install_xformers_python313", "fix_pytorch_installation"}
    /\ host = [py313 |-> TRUE, windows |-> TRUE]
    /\ pc = "call"
    /\ i = 1
    /\ loc = NoLocals
    /\ pkgs = Absent
    /\ sysmodules = [m \in Packages |-> "none"]
    /\ files = NoFiles
    /\ trace = <<>>
    /\ exitcode = -1

\* subprocess.run(cmd, ...): the child is started.
subprocess_run_start ==
    /\ pc = "call"
    /\ trace' = trace \o <<Start(ProcCommands(script)[i].cmd)>>
    /\ pc' = "wait"
    /\ UNCHANGED <<script, host, i, loc, pkgs, sysmodules, files, exitcode>>

\* A child that runs terminates, with exit code 0 or 1.
child_terminates ==
    /\ pc \in {"call", "wait", "done"}
    /\ \E j \in Running(trace), rc \in {0, 1} :
          trace' = trace \o <<Ended(trace[j].a, j, rc)>>
    /\ UNCHANGED <<script, host, pc, i, loc, pkgs, sysmodules, files, exitcode>>

\* subprocess.run returns and the code goes on: with check=True a non-zero
\* exit code raises CalledProcessError, which ends the strategy
\* (install_xformers_strategies: continue; install_pytorch_strategy_2:
\* return False); after the install of an xformers strategy the import is
\* tried, and the function returns when it works.
subprocess_run_return ==
    /\ pc = "wait"
    /\ returned(trace)
    /\ LET step == ProcCommands(script)[i]
           failed == step.check /\ LastRc(trace) # 0
           last == i = Len(ProcCommands(script))
       IN IF script = "install_xformers_python313"
          THEN \E import_ok \in BOOLEAN :
                  LET stop == last \/ (step.check /\ ~failed /\ import_ok)
                  IN /\ i' = IF stop THEN i ELSE i + 1
                     /\ pc' = IF stop THEN "done" ELSE "call"
          ELSE /\ i' = IF failed \/ last THEN i ELSE i + 1
               /\ pc' = IF failed \/ last THEN "done" ELSE "call"
    /\ UNCHANGED <<script, host, loc, pkgs, sysmodules, files, trace, exitcode>>

ProcsNext ==
    \/ subprocess_run_start
    \/ child_terminates
    \/ subprocess_run_return

SpecProcs == ProcsInit /\ [][ProcsNext]_vars

(* C17: one child process at a time.                                      *)

\* C17: at no time do two children of a script run, and when the script
\* is about to start a command, or is done, no child runs.
C17_OneChildAtATime ==
    /\ \A j1, j2 \in Running(trace) : j1 = j2
    /\ pc \in {"call", "done"} => Running(trace) = {}

\* A second command runs, the first having terminated.
C17_Witness ==
    /\ pc = "wait"
    /\ Running(trace) # {}
    /\ \E j \in 1..Len(trace) : trace[j].k = "ended"

(***************************************************************************)
(* The patches guarded by an "already patched" marker, on text             *)
(***************************************************************************)

\* The first test of each of these functions, `marker in content`.
already_patched_never(content, marker) == FALSE

already_patched(content, marker) == Contains(content, marker)

\* fix_blendmodes_final.patch_processing_py_if_needed(), lines 206-228
\* (the warning sign of the print left out).
blend_old_import == "from blendmodes.blend import blendLayers, BlendType"

blend_new_import ==
    "# blendmodes import fallback for Python 3.13 compatibility\n"
    \o "try:\n"
    \o "    from blendmodes.blend import blendLayers, BlendType\n"
    \o "except ImportError:\n"
    \o "    print(\"blendmodes not available - using fallback\")\n"
    \o "    # Minimal fallback implementation\n"
    \o "    from enum import Enum\n"
    \o "    import numpy as np\n"
    \o "    \n"
    \o "    class BlendType(Enum):\n"
    \o "        NORMAL = \"normal\"\n"
    \o "        MULTIPLY = \"multiply\"\n"
    \o "        SCREEN = \"screen\"\n"
    \o "        OVERLAY = \"overlay\"\n"
    \o "    \n"
    \o "    def blendLayers(background, foreground, blendType=None, opacity=1.0):\n"
    \o "        # Simple fallback blend\n"
    \o "        if not isinstance(background, np.ndarray):\n"
    \o "            background = np.array(background)\n"
    \o "        if not isinstance(foreground, np.ndarray):\n"
    \o "            foreground = np.array(foreground)\n"
    \o "        return foreground * opacity + background * (1 - opacity)"

\* fix_gradio_compatibility.patch_gradio_extensions(), lines 105-118.
gradio_old_line ==
    "original_IOComponent_init = patches.patch(__name__, obj=gr.components.IOComponent, field=\"__init__\", replacement=IOComponent_init)"

gradio_new_lines ==
    "# Handle Gradio version compatibility - IOComponent was renamed to Component in Gradio 4.x\n"
    \o "try:\n"
    \o "    # Try Gradio 3.x API first\n"
    \o "    " \o gradio_old_line \o "\n"
    \o "except AttributeError:\n"
    \o "    # Fallback to Gradio 4.x+ API\n"
    \o "    try:\n"
    \o "        original_IOComponent_init = patches.patch(__name__, obj=gr.components.Component, field=\"__init__\", replacement=IOComponent_init)\n"
    \o "    except AttributeError:\n"
    \o "        # If both fail, create a dummy patch\n"
    \o "        print(\"Gradio component patching failed - using fallback\")\n"
    \o "        original_IOComponent_init = None"

\* fix_ui_compatibility.patch_pydantic_compatibility(), lines 102-127.
pydantic_old_code ==
    "        DynamicModel = create_model(self._model_name, **fields)\n"
    \o "        DynamicModel.__config__.allow_population_by_field_name = True\n"
    \o "        DynamicModel.__config__.allow_mutation = True\n"
    \o "        return DynamicModel"

pydantic_new_code ==
    "        DynamicModel = create_model(self._model_name, **fields)\n"
    \o "        \n"
    \o "        # Handle Pydantic v1/v2 compatibility - __config__ was replaced with model_config in v2\n"
    \o "        try:\n"
    \o "            # Pydantic v1 API\n"
    \o "            DynamicModel.__config__.allow_population_by_field_name = True\n"
    \o "            DynamicModel.__config__.allow_mutation = True\n"
    \o "        except AttributeError:\n"
    \o "            # Pydantic v2 API\n"
    \o "            try:\n"
    \o "                from pydantic import ConfigDict\n"
    \o "                DynamicModel.model_config = ConfigDict(\n"
    \o "                    populate_by_name=True,\n"
    \o "                    arbitrary_types_allowed=True\n"
    \o "                )\n"
    \o "            except ImportError:\n"
    \o "                # Fallback if ConfigDict not available\n"
    \o "                print(\"Pydantic configuration failed - using defaults\")\n"
    \o "        \n"
    \o "        return DynamicModel"

\* fix_image_generation.patch_webui_image_processing(), lines 118-127.
decode_old_pattern ==
    "def decode_latent_batch(model, batch, target_device=None, check_for_nans=False):"

decode_new_pattern ==
    decode_old_pattern \o "\n"
    \o "    # CPU-only tensor processing fix for Python 3.13\n"
    \o "    if target_device is None:\n"
    \o "        target_device = torch.device('cpu')\n"
    \o "    \n"
    \o "    # Ensure tensors are on correct device and have correct dtype\n"
    \o "    if hasattr(batch, 'to'):\n"
    \o "        batch = batch.to(device=target_device, dtype=torch.float32)"

\* fix_image_generation.patch_webui_image_processing(), lines 136-153.
tensor_fix ==
    "\n"
    \o "# CPU-only image tensor processing fix\n"
    \o "def fix_tensor_for_cpu(tensor):\n"
    \o "    \"\"\"Fix tensor for CPU-only processing\"\"\"\n"
    \o "    if tensor is None:\n"
    \o "        return None\n"
    \o "    \n"
    \o "    # Ensure tensor is on CPU with correct dtype\n"
    \o "    if hasattr(tensor, 'to'):\n"
    \o "        tensor = tensor.to(device=torch.device('cpu'), dtype=torch.float32)\n"
    \o "    \n"
    \o "    # Ensure contiguous memory layout\n"
    \o "    if hasattr(tensor, 'contiguous'):\n"
    \o "        tensor = tensor.contiguous()\n"
    \o "    \n"
    \o "    return tensor\n"
    \o "\n"

\* fix_image_generation.patch_webui_images_module(), lines 196-217.
cpu_fix ==
    "\n"
    \o "# CPU image processing fix for Python 3.13\n"
    \o "def ensure_cpu_compatible_image(image_data):\n"
    \o "    \"\"\"Ensure image data is compatible with CPU processing\"\"\"\n"
    \o "    if image_data is None:\n"
    \o "        return None\n"
    \o "    \n"
    \o "    # Handle torch tensors\n"
    \o "    if hasattr(image_data, 'detach'):\n"
    \o "        image_data = image_data.detach().cpu()\n"
    \o "    \n"
    \o "    # Handle numpy arrays\n"
    \o "    if isinstance(image_data, np.ndarray):\n"
    \o "        # Ensure correct dtype and range\n"
    \o "        if image_data.dtype != np.uint8:\n"
    \o "            if image_data.max() <= 1.0:\n"
    \o "                image_data = (image_data * 255).astype(np.uint8)\n"
    \o "            else:\n"
    \o "                image_data = image_data.astype(np.uint8)\n"
    \o "    \n"
    \o "    return image_data\n"
    \o "\n"

\* content[:k] + text + content[k:], k counted from 1 as Find counts.
insert_at(content, k, text) ==
    SubSeq(content, 1, k - 1) \o text \o SubSeq(content, k, Len(content))

\* What the files that these functions patch hold, as text.
processing_texts ==
    {"import torch\n" \o blend_old_import \o "\n\n\n" \o decode_old_pattern \o "\n"
        \o "    samples = []\n\n\ndef images_tensor_to_samples(image):\n    return image\n",
     "import torch\n\n\ndef images_tensor_to_samples(image):\n    return image\n",
     "import torch\n"}

images_texts ==
    {"import numpy as np\nfrom PIL import Image\n\ndef save_image(image):\n    pass\n",
     "FORMATS = []\n"}

gradio_extensons_texts ==
    {"import gradio as gr\n" \o gradio_old_line \o "\n",
     "import gradio as gr\ninit = gr.components.IOComponent.__init__\n",
     "import gradio as gr\n"}

api_models_texts ==
    {"    def generate_model(self):\n" \o pydantic_old_code \o "\n",
     "        DynamicModel.__config__.allow_population_by_field_name = False\n",
     "from pydantic import BaseModel\n"}

\* The three functions that replace one text by another have the same
\* body: the marker test, the test whether the file needs the patch, the
\* backup written from what was read, the replacement and the write of the
\* target.  p names the texts of one of them, w what the file system does.
blend_patch ==
    [f |-> "modules/processing.py", backup |-> "modules/processing.py.blendmodes_backup",
     marker |-> "blendmodes import fallback", needs |-> blend_old_import,
     old |-> blend_old_import, new |-> blend_new_import,
     already |-> "processing.py already patched for blendmodes",
     noneed |-> "processing.py doesn't need blendmodes patching"]

gradio_patch ==
    [f |-> "modules/gradio_extensons.py",
     backup |-> "modules/gradio_extensons.py.gradio_backup",
     marker |-> "Handle Gradio version compatibility", needs |-> "gr.components.IOComponent",
     old |-> gradio_old_line, new |-> gradio_new_lines,
     already |-> "gradio_extensons.py already patched",
     noneed |-> "gradio_extensons.py doesn't need patching"]

pydantic_patch ==
    [f |-> "modules/api/models.py", backup |-> "modules/api/models.py.pydantic_backup",
     marker |-> "Handle Pydantic v1/v2 compatibility",
     needs |-> "DynamicModel.__config__.allow_population_by_field_name",
     old |-> pydantic_old_code, new |-> pydantic_new_code,
     already |-> "modules/api/models.py already patched",
     noneed |-> "modules/api/models.py doesn't need patching"]

marked_replace(p, w) ==
    LET content == read_text(files[p.f])
        failed == Pr("Error patching " \o p.f)
    IN CASE already_patched(content, p.marker) ->
              [files |-> files, ev |-> <<Ex(p.f), Rd(p.f), Pr(p.already)>>]
         [] ~Contains(content, p.needs) ->
              [files |-> files, ev |-> <<Ex(p.f), Rd(p.f), Pr(p.noneed)>>]
         [] w = "no_backup" ->
              [files |-> files, ev |-> <<Ex(p.f), Rd(p.f), failed>>]
         [] w = "no_write" ->
              [files |-> [files EXCEPT ![p.backup] = write_text(content, host.windows)],
               ev |-> <<Ex(p.f), Rd(p.f), Wr(p.backup), failed>>]
         [] OTHER ->
              [files |-> [files EXCEPT
                            ![p.backup] = write_text(content, host.windows),
                            ![p.f] = write_text(str_replace(content, p.old, p.new),
                                                host.windows)],
               ev |-> <<Ex(p.f), Rd(p.f), Wr(p.backup), Wr(p.f), Pr("Patched " \o p.f)>>]

\* fix_image_generation.patch_webui_image_processing(): two patches, the
\* second guarded by the name of the function it inserts; the backup and the
\* target are written, both from the patched content, when a patch applied.
marked_image_processing(w) ==
    LET f == "modules/processing.py"
        backup == "modules/processing.py.image_gen_backup"
        content == read_text(files[f])
        p1 == Contains(content, "def decode_latent_batch")
              /\ Contains(content, decode_old_pattern)
        c1 == IF p1 THEN str_replace(content, decode_old_pattern, decode_new_pattern)
              ELSE content
        p2 == /\ Contains(c1, "images_tensor_to_samples")
              /\ Contains(c1, "def images_tensor_to_samples")
              /\ ~Contains(c1, "fix_tensor_for_cpu")
        c2 == IF p2 THEN insert_at(c1, Find(c1, "def images_tensor_to_samples", 1), tensor_fix)
              ELSE c1
        patches_applied == (IF p1 THEN 1 ELSE 0) + (IF p2 THEN 1 ELSE 0)
        applied == (IF p1 THEN <<Pr("Applied decode_latent_batch patch")>> ELSE <<>>)
                   \o (IF p2 THEN <<Pr("Added tensor processing fix function")>> ELSE <<>>)
        failed == Pr("Error patching " \o f)
    IN CASE already_patched(content, "CPU-only tensor processing fix") ->
              [files |-> files,
               ev |-> <<Ex(f), Rd(f), Pr("modules/processing.py already patched")>>]
         [] patches_applied = 0 ->
              [files |-> files,
               ev |-> <<Ex(f), Rd(f), Pr("No patches needed for processing.py")>>]
         [] w = "no_backup" ->
              [files |-> files, ev |-> <<Ex(f), Rd(f)>> \o applied \o <<failed>>]
         [] w = "no_write" ->
              [files |-> [files EXCEPT ![backup] = write_text(c2, host.windows)],
               ev |-> <<Ex(f), Rd(f)>> \o applied \o <<Wr(backup), failed>>]
         [] OTHER ->
              [files |-> [files EXCEPT ![backup] = write_text(c2, host.windows),
                                       ![f] = write_text(c2, host.windows)],
               ev |-> <<Ex(f), Rd(f)>> \o applied
                      \o <<Wr(backup), Wr(f),
                           Pr("Applied " \o ToString(patches_applied) \o " patches to " \o f)>>]

\* fix_image_generation.patch_webui_images_module(): the text is inserted
\* at the first empty line behind the first "import", unless the file has
\* none or already names the inserted function.
marked_images_module(w) ==
    LET f == "modules/images.py"
        backup == "modules/images.py.cpu_fix_backup"
        content == read_text(files[f])
        first_import == Find(content, "import", 1)
        import_end == IF first_import = 0 THEN 0 ELSE Find(content, "\n\n", first_import)
        new == insert_at(content, import_end, cpu_fix)
        failed == Pr("Error patching " \o f)
    IN CASE already_patched(content, "CPU image processing fix") ->
              [files |-> files,
               ev |-> <<Ex(f), Rd(f), Pr("modules/images.py already patched")>>]
         [] import_end = 0 \/ Contains(content, "ensure_cpu_compatible_image") ->
              [files |-> files,
               ev |-> <<Ex(f), Rd(f), Pr("images.py doesn't need patching")>>]
         [] w = "no_backup" ->
              [files |-> files, ev |-> <<Ex(f), Rd(f), failed>>]
         [] w = "no_write" ->
              [files |-> [files EXCEPT ![backup] = write_text(new, host.windows)],
               ev |-> <<Ex(f), Rd(f), Wr(backup), failed>>]
         [] OTHER ->
              [files |-> [files EXCEPT ![backup] = write_text(new, host.windows),
                                       ![f] = write_text(new, host.windows)],
               ev |-> <<Ex(f), Rd(f), Wr(backup), Wr(f),
                        Pr("Added CPU image processing fix to images.py")>>]

\* The five functions called one after the other in one directory, in any
\* order.  script is the function that was called last, i the number of
\* calls so far and trace what the calls did.  One of the four targets is
\* there at the start, in Unix or in Windows line ends, or none is.
MarkedInit ==
    /\ script = "none"
    /\ host \in [python : {[major |-> 3, minor |-> 13]}, windows : BOOLEAN,
                 torch : {"absent"}]
    /\ pc = "marked"
    /\ i = 0
    /\ loc = NoLocals
    /\ pkgs = Absent
    /\ sysmodules = [m \in Packages |-> "none"]
    /\ files \in {NoFiles}
          \cup { [NoFiles EXCEPT !["modules/processing.py"] = t] :
                    t \in FilesOf(processing_texts) \ {"absent"} }
          \cup { [NoFiles EXCEPT !["modules/images.py"] = t] :
                    t \in FilesOf(images_texts) \ {"absent"} }
          \cup { [NoFiles EXCEPT !["modules/gradio_extensons.py"] = t] :
                    t \in FilesOf(gradio_extensons_texts) \ {"absent"} }
          \cup { [NoFiles EXCEPT !["modules/api/models.py"] = t] :
                    t \in FilesOf(api_models_texts) \ {"absent"} }
    /\ trace = <<>>
    /\ exitcode = -1

MarkedCall(name, f, r) ==
    /\ pc = "marked" /\ i < MaxCalls
    /\ script' = name
    /\ i' = i + 1
    /\ IF files[f] = "absent"
       THEN /\ files' = files
            /\ trace' = trace \o <<Ex(f), Pr(f \o " not found")>>
       ELSE /\ files' = r.files
            /\ trace' = trace \o r.ev
    /\ UNCHANGED <<host, pc, loc, pkgs, sysmodules, exitcode>>

call_patch_processing_py_if_needed ==
    \E w \in PatchOutcomes :
        MarkedCall("patch_processing_py_if_needed", blend_patch.f, marked_replace(blend_patch, w))

call_patch_gradio_extensions ==
    \E w \in PatchOutcomes :
        MarkedCall("patch_gradio_extensions", gradio_patch.f, marked_replace(gradio_patch, w))

call_patch_pydantic_compatibility ==
    \E w \in PatchOutcomes :
        MarkedCall("patch_pydantic_compatibility", pydantic_patch.f,
                   marked_replace(pydantic_patch, w))

call_patch_webui_image_processing ==
    \E w \in PatchOutcomes :
        MarkedCall("patch_webui_image_processing", "modules/processing.py",
                   marked_image_processing(w))

call_patch_webui_images_module ==
    \E w \in PatchOutcomes :
        MarkedCall("patch_webui_images_module", "modules/images.py", marked_images_module(w))

MarkedNext ==
    \/ call_patch_processing_py_if_needed
    \/ call_patch_gradio_extensions
    \/ call_patch_pydantic_compatibility
    \/ call_patch_webui_image_processing
    \/ call_patch_webui_images_module

SpecMarked == MarkedInit /\ [][MarkedNext]_vars

(* C21: a patch guarded by a marker, run twice.                            *)

MarkedTarget(name) ==
    CASE name = "patch_processing_py_if_needed" -> "modules/processing.py"
      [] name = "patch_webui_image_processing" -> "modules/processing.py"
      [] name = "patch_webui_images_module" -> "modules/images.py"
      [] name = "patch_gradio_extensions" -> "modules/gradio_extensons.py"
      [] name = "patch_pydantic_compatibility" -> "modules/api/models.py"
      [] OTHER -> "models"

\* The call that ended the trace ran to its end: no exception was caught.
RanToEnd(tr) ==
    /\ tr # <<>>
    /\ \A f \in FileNames : tr[Len(tr)] # Pr("Error patching " \o f)

\* C21: when one of the five marker-guarded patch functions has run to its
\* end and the same function is called again, the second call leaves its
\* target byte for byte as the first call left it.
C21_MarkedPatchIdempotent ==
    [][ (pc = "marked" /\ i' = i + 1 /\ script' = script /\ RanToEnd(trace))
          => files'[MarkedTarget(script)] = files[MarkedTarget(script)] ]_vars

\* A function that patched its target in its first call was called again
\* and ran to its end.
C21_Witness ==
    /\ pc = "marked" /\ i = 2
    /\ \E name \in {"patch_processing_py_if_needed", "patch_webui_image_processing",
                    "patch_webui_images_module", "patch_gradio_extensions",
                    "patch_pydantic_compatibility"} :
          /\ script = name
          /\ Len(trace) >= 6
          /\ \E j \in 1..(Len(trace) - 3) :
                /\ trace[j] = Wr(MarkedTarget(name))
                /\ trace[j + 1].k = "print"
                /\ trace[j + 2] = Ex(MarkedTarget(name))
                /\ trace[j + 3] = Rd(MarkedTarget(name))
          /\ RanToEnd(trace)

(* C22: a strategy is verified against what it installed.                  *)

\* The pip commands of the step ended with exit code 0: neither the line of
\* a failed install nor a traceback was printed.
InstallRan ==
    /\ NewEvents # <<>>
    /\ \E j \in 1..Len(NewEvents) : NewEvents[j].k = "pip"
    /\ ~Occurs(NewEvents, Traceback)
    /\ \A n \in {"1", "2", "3"} : ~Occurs(NewEvents, Pr("Strategy " \o n \o " failed"))
    /\ \A k \in 1..Len(compatible_versions) :
          ~Occurs(NewEvents, Pr("Failed to install " \o compatible_versions[k]))

\* C22: when a strategy of fix_pytorch_installation has installed a PyTorch
\* with CUDA, main reports the strategy as a success, and when
\* install_compatible_gradio has installed a Gradio that has IOComponent, it
\* reports the version as installed and working, whatever the process had
\* imported before.
C22_VerificationReflectsInstall ==
    [][ /\ (script = "fix_pytorch_installation" /\ pc = "strategies"
            /\ InstallRan /\ pkgs'["torch"] = "cuda")
              => Occurs(NewEvents, Pr("Success with: " \o fpi_strategies[i]))
        /\ (script = "fix_gradio_compatibility" /\ pc = "install_compatible_gradio"
            /\ InstallRan /\ pkgs'["gradio"] = "v3")
              => Occurs(NewEvents, Pr(compatible_versions[i] \o " installed and working"))
      ]_vars

(* C23: the launcher names the torch that was installed.                   *)

\* What `pip install` was given by the configuration of install_cuda_pytorch
\* that succeeded, as a TORCH_COMMAND would name it.
installed_torch_command(k) ==
    "pip install torch==2.6.0 torchvision==0.21.0 --extra-index-url https://download.pytorch.org/whl/"
    \o cuda_configs[k]

\* C23: when fix_pytorch_cuda has written webui_env.bat, the TORCH_COMMAND
\* line of the file names the torch version and the wheel index of the
\* configuration whose install succeeded in that run.
C23_LauncherNamesInstalledTorch ==
    (script = "fix_pytorch_cuda" /\ pc = "exit" /\ loc["success"]
     /\ Occurs(trace, Wr("webui_env.bat")))
      => Contains(files["webui_env.bat"],
                  "set TORCH_COMMAND=" \o installed_torch_command(i) \o "\n")

(* C24: the summary line about the UI configuration.                       *)

\* C24: when fix_grey_images has printed "UI configuration updated",
\* ui-config.json holds the name of the selected VAE file under both
\* Preferred VAE keys.
C24_UpdatedMeansConfigured ==
    (script = "fix_grey_images" /\ Occurs(trace, Pr("UI configuration updated")))
      => LET c == preferred_vae(files["ui-config.json"])
         IN /\ c.read = "ok"
            /\ c.txt2img_vae = PyStr(vae_name)
            /\ c.img2img_vae = PyStr(vae_name)

(* C25: the overall success line and the installs it is about.             *)

\* C25: when quick_package_fix has printed "Quick fix completed!", none of
\* its installs failed in that run, and when install_core_deps has printed
\* "All core dependencies installed successfully!", none of its installs
\* failed in that run.
C25_SuccessLineOnlyAfterSuccess ==
    /\ (script = "quick_package_fix" /\ Occurs(trace, Pr("Quick fix completed!")))
         => \A k \in 1..Len(qpf_packages) :
               ~Occurs(trace, Pr(qpf_packages[k].req \o " failed, continuing..."))
    /\ (script = "install_core_deps"
        /\ Occurs(trace, Pr("All core dependencies installed successfully!")))
         => \A k \in 1..Len(core_deps) : ~Occurs(trace, Pr(core_deps[k] \o " failed"))

(* C26: what configure_vae_in_ui_config leaves alone.                      *)

\* C26: in a step of configure_vae_in_ui_config on a ui-config.json that
\* holds a JSON object, every key other than the two Preferred VAE keys is
\* in the file after the step with the value it had before.
C26_OnlyTheTwoKeysChange ==
    [][ (script = "fix_grey_images" /\ pc = "configure_vae_in_ui_config")
          => LET loaded == json_load(files["ui-config.json"])
                 written == IF files'["ui-config.json"] = files["ui-config.json"]
                            THEN loaded ELSE json_load(files'["ui-config.json"])
             IN loaded # {}
                  => /\ written # {}
                     /\ LET before == CHOOSE d \in loaded : TRUE
                            after == CHOOSE d \in written : TRUE
                        IN \A k \in DOMAIN before \ {SettingKeys[1], SettingKeys[2]} :
                              k \in DOMAIN after /\ after[k] = before[k] ]_vars

\* configure_vae_in_ui_config has written a file that held a third key and
\* now holds the VAE name as well.
C26_Witness ==
    /\ script = "fix_grey_images"
    /\ Occurs(trace, Wr("ui-config.json"))
    /\ \E d \in json_load(files["ui-config.json"]) :
          /\ DOMAIN d = {SettingKeys[1], SettingKeys[2], SettingKeys[3]}
          /\ d[SettingKeys[1]] = PyStr(vae_name)

(* C27: a file taken as downloaded is a whole file.                        *)

\* C27: a run of fix_grey_images whose download failed leaves no VAE file
\* behind, and the VAE file a run found and uses is a completely downloaded
\* file.
C27_NoPartialDownloadAccepted ==
    script = "fix_grey_images"
      => /\ Occurs(trace, Pr("Failed to download VAE")) => files[vae_filename] = "absent"
         /\ Occurs(trace, Pr("Found VAE files")) => files[vae_filename] = "complete"

(* C28: the two patches of modules/launch_utils.py, in both orders.        *)

\* The default of OPENCLIP_PACKAGE a text of launch_utils.py gives.
openclip_default(content) ==
    CASE Contains(content, old_openclip) ->
           "https://github.com/mlfoundations/open_clip/archive/bb6e834e9c70d9c27d0dc3ecedeebeaeb1ffad6b.zip"
      [] Contains(content, new_openclip) -> "open-clip-torch==2.24.0"
      [] Contains(content, modifications[3].new) -> "transformers"
      [] OTHER -> "none"

\* C28: whatever modules/launch_utils.py holds, patching it with
\* modify_webui_packages and then with modify_webui_for_no_compilation gives
\* the same default of OPENCLIP_PACKAGE as patching it in the other order.
C28_LaunchUtilsPatchesCommute ==
    (pc = "patches" /\ files[launch_utils_path] # "absent")
      => LET content == read_text(files[launch_utils_path])
             packages == << [old |-> old_openclip, new |-> new_openclip] >>
         IN openclip_default(apply_patches(apply_patches(content, packages, 1),
                                           modifications, 1))
            = openclip_default(apply_patches(apply_patches(content, modifications, 1),
                                             packages, 1))

(* C29: an install that runs into the timeout.                             *)

\* C29: a step of try_xformers_alternatives whose pip install ran into the
\* timeout ends as a failed strategy: the line about the timeout is
\* printed, there is no traceback, the script does not exit and the next
\* strategy of the list is the one to be tried.
C29_TimeoutIsAFailedStrategy ==
    [][ (script = "fix_final_gpu_issues" /\ pc = "try_xformers_alternatives"
         /\ Occurs(NewEvents, Killed("install " \o ffg_strategies[i].cmd)))
          => /\ Occurs(NewEvents, Pr("FAILED: " \o ffg_strategies[i].name
                                     \o " installation timed out"))
             /\ ~Occurs(NewEvents, Traceback)
             /\ exitcode' = exitcode
             /\ pc' = "try_xformers_alternatives"
             /\ i' = i + 1 /\ i' <= Len(ffg_strategies)
             /\ ~loc'["xformers_installed"] ]_vars

\* An install timed out and the strategy after it was tried.
C29_Witness ==
    /\ script = "fix_final_gpu_issues"
    /\ \E j \in 1..(Len(trace) - 1), k \in 1..(Len(ffg_strategies) - 1) :
          /\ trace[j] = Pr("FAILED: " \o ffg_strategies[k].name \o " installation timed out")
          /\ trace[j + 1] = Pr("Trying: " \o ffg_strategies[k + 1].name)

====
